---- MODULE Spec2Model ----
(***************************************************************************)
(* Verification model of the IMF exchange-rate pipeline.                   *)
(*                                                                         *)
(*   Part I   utils/core_processor.py : run_core_processing, the manifest  *)
(*            driven batch processor (archive, quarantine, logs), called   *)
(*            by flows/process_batch_flow.py with its retry policy.        *)
(*   Part II  utils/exchange_rate_fetcher.py, fetch_historical_rates_fixed *)
(*            .py, flows/historical_backfill_flow.py : acquisition of the  *)
(*            monthly datasets and the country tracker.                    *)
(*   Part III utils/imf_data_validator.py : the single-month checks and    *)
(*            build_report.                                                *)
(*   Part IV  utils/imf_data_validator.py : cross_validate_historical.     *)
(*   Part V   utils/exchange_rate_fetcher.py : resolve_currency_codes and  *)
(*            the persistent currency cache.                               *)
(*   Part VI  flows/*.py, utils/batch_prepare.py : the chain of flows and  *)
(*            the manifests of the hot folder.                             *)
(*   Part VII utils/exchange_rate_fetcher.py : the chunked fetch call by   *)
(*            call, with the attempts of get_currency_data_from_imf.       *)
(*   Part VIII utils/exchange_rate_fetcher.py : the lookup pool of the     *)
(*            resolver for batches larger than the pool.                   *)
(*   Part IX  utils/batch_prepare.py : create_batch_manifest step by step, *)
(*            called by the acquisition and the prepare flow.              *)
(*   Part X   watcher/local_file_event_watcher.py : the hot-folder watcher.*)
(*   Part XI  fetch_historical_rates_fixed.py : the script of Part II run  *)
(*            again and again against a source that has settled.           *)
(*   Part XII utils/exchange_rate_fetcher.py : the dictionary that         *)
(*            fetch_rates_chunked returns for the backfill of Part II.     *)
(*                                                                         *)
(* Every part has its own specification; the variables of the other parts  *)
(* stay at their initial value under it.                                   *)
(***************************************************************************)
EXTENDS Integers, Sequences, FiniteSets, TLC

(***************************************************************************)
(* Bounds of the model.                                                    *)
(***************************************************************************)
\* longest raw_data list of a manifest
MaxRaw == 1

(***************************************************************************)
(* PART I  -  the batch processor                                          *)
(***************************************************************************)
VARIABLES
    manifest,      \* the loaded MANIFEST.json: [files: [partners, units, forex], raw_data]
    disk,          \* paths of the source files that exist (a file's content is named by its path)
    disk_at_call,  \* history: disk when the current run_core_processing call began
    disk_first,    \* history: disk before the first call
    archive,       \* ARCHIVE_DIR/<batch_id>: file name -> content held under that name
    output,        \* TRUE when processed_output_<batch_id>.csv is in the archive folder
    error_folder,  \* ERROR_DIR/<batch_id>: file name -> content held under that name
    success_log,   \* number of the call that wrote LOG_DIR/<batch_id>_success.log, 0 if none
    error_log,     \* [call, error] of LOG_DIR/<batch_id>_error.log, or NoLog
    pc,            \* position inside run_core_processing
    i,             \* index into all_files of the running copy / remove loop
    all_files,     \* the list run_core_processing computes before the try block
    exc,           \* the exception caught by the except branch, "none" if none
    outcome,       \* "none" | "returned" | "raised" : how the current call ended
    raised,        \* the exception that reached the caller, "none" if none
    calls          \* number of run_core_processing calls made by process_batch_flow

batchVars == <<manifest, disk, disk_at_call, disk_first, archive, output, error_folder, success_log,
               error_log, pc, i, all_files, exc, outcome, raised, calls>>

\* A path is <<directory, file name>>.
Names == {"a.csv", "b.csv"}
SourcePaths == {<<"2_preprocessing", "a.csv">>, <<"2_preprocessing", "b.csv">>,
                <<"1_input", "a.csv">>}
\* the units file of the manifests of the model
UnitsPaths == {<<"2_preprocessing", "b.csv">>}
ManifestFile == <<"3_processing_hotfolder", "B1_MANIFEST.json">>
AllNames == Names \cup {ManifestFile[2]}
NoFile == <<"-", "-">>
NoLog == [call |-> 0, error |-> "none"]

\* Path(src).name
Basename(src) == src[2]

\* retries=2 of process_batch_flow: one call and two retries
FlowRetries == 2

RECURSIVE SeqsUpTo(_, _)
SeqsUpTo(S, n) ==
    IF n = 0 THEN {<<>>}
    ELSE SeqsUpTo(S, n - 1) \cup
         {Append(s, x) : s \in {t \in SeqsUpTo(S, n - 1) : Len(t) = n - 1}, x \in S}

Manifests ==
    [files : [partners : SourcePaths, units : UnitsPaths, forex : SourcePaths],
     raw_data : SeqsUpTo(SourcePaths, MaxRaw)]

\* list(manifest["files"].values()) in the order the manifest builder writes the keys
FilesValues(m) == <<m.files.partners, m.files.units, m.files.forex>>

\* all_files of run_core_processing
AllFiles(m, d) ==
    <<ManifestFile>> \o FilesValues(m) \o SelectSeq(m.raw_data, LAMBDA f : f \in d)

\* every file the manifest references: the manifest, files.*, raw_data
Referenced(m) ==
    {ManifestFile} \cup {m.files.partners, m.files.units, m.files.forex}
        \cup {m.raw_data[k] : k \in 1..Len(m.raw_data)}

BatchInit ==
    /\ manifest \in Manifests
    /\ \E d \in SUBSET SourcePaths : disk = d \cup {ManifestFile}
    /\ disk_at_call = disk
    /\ disk_first = disk
    /\ archive = [n \in AllNames |-> NoFile]
    /\ output = FALSE
    /\ error_folder = [n \in AllNames |-> NoFile]
    /\ success_log = 0
    /\ error_log = NoLog
    /\ pc = "idle"
    /\ i = 0
    /\ all_files = <<>>
    /\ exc = "none"
    /\ outcome = "none"
    /\ raised = "none"
    /\ calls = 0

\* entering the except branch of run_core_processing with the caught exception e
Caught(e) ==
    /\ exc' = e
    /\ pc' = "except"
    /\ i' = 1

\* process_batch_flow checks the manifest path, then run_core_processing loads the
\* manifest and builds all_files; a flow retry calls it again with the same path.
Call ==
    /\ pc = "idle"
    /\ \/ outcome = "none" /\ calls = 0
       \/ outcome = "raised" /\ calls <= FlowRetries
    /\ calls' = calls + 1
    /\ disk_at_call' = disk
    /\ exc' = "none"
    /\ i' = 0
    /\ IF ManifestFile \in disk
       THEN /\ all_files' = AllFiles(manifest, disk)
            /\ pc' = "transform"
            /\ outcome' = "none"
            /\ raised' = "none"
       ELSE /\ all_files' = <<>>
            /\ pc' = "idle"
            /\ outcome' = "raised"
            /\ raised' = "ManifestNotFound"
    /\ UNCHANGED <<manifest, disk, disk_first, archive, output, error_folder, success_log,
                   error_log>>

\* _transform_data: FileNotFoundError when the forex file is missing; read_csv may
\* raise on the file it reads; a failing partner merge is caught inside.
Transform ==
    /\ pc = "transform"
    /\ IF manifest.files.forex \notin disk
       THEN Caught("FileNotFoundError")
       ELSE \/ pc' = "write_output" /\ UNCHANGED <<exc, i>>
            \/ Caught("TransformError")
    /\ UNCHANGED <<manifest, disk, disk_at_call, disk_first, archive, output, error_folder,
                   success_log, error_log, all_files, outcome, raised, calls>>

\* batch_archive.mkdir and df.to_csv(output_path)
WriteOutput ==
    /\ pc = "write_output"
    /\ \/ /\ output' = TRUE
          /\ pc' = "copy"
          /\ i' = 1
          /\ UNCHANGED exc
       \/ /\ Caught("OutputWriteError")
          /\ UNCHANGED output
    /\ UNCHANGED <<manifest, disk, disk_at_call, disk_first, archive, error_folder,
                   success_log, error_log, all_files, outcome, raised, calls>>

\* shutil.copy2(src, dest_folder / Path(src).name) on a folder's content
CopyInto(folder, src) == [folder EXCEPT ![Basename(src)] = src]

\* one iteration of _copy_to_folder(all_files, batch_archive): a missing file is
\* skipped with a warning, copy2 may raise
ArchiveCopy ==
    /\ pc = "copy"
    /\ i <= Len(all_files)
    /\ LET src == all_files[i] IN
         \/ /\ archive' = IF src \in disk THEN CopyInto(archive, src) ELSE archive
            /\ IF i = Len(all_files) THEN pc' = "remove" /\ i' = 1
                                     ELSE pc' = "copy" /\ i' = i + 1
            /\ UNCHANGED exc
         \/ /\ src \in disk
            /\ Caught("ArchiveCopyError")
            /\ UNCHANGED archive
    /\ UNCHANGED <<manifest, disk, disk_at_call, disk_first, output, error_folder,
                   success_log, error_log, all_files, outcome, raised, calls>>

\* os.remove(src) on the disk
Remove(d, src) == d \ {src}

\* one iteration of _remove_files(all_files): os.remove when the file exists; an
\* OSError is caught and logged, the loop goes on
RemoveOriginal ==
    /\ pc = "remove"
    /\ i <= Len(all_files)
    /\ LET src == all_files[i] IN
         \/ disk' = Remove(disk, src)
         \/ src \in disk /\ disk' = disk
    /\ IF i = Len(all_files) THEN pc' = "success_log" /\ i' = 0
                             ELSE pc' = "remove" /\ i' = i + 1
    /\ UNCHANGED <<manifest, disk_at_call, disk_first, archive, output, error_folder,
                   success_log, error_log, all_files, exc, outcome, raised, calls>>

\* writing LOG_DIR/<batch_id>_success.log, the last statement of the try block
SuccessLog ==
    /\ pc = "success_log"
    /\ \/ /\ success_log' = calls
          /\ pc' = "idle"
          /\ outcome' = "returned"
          /\ UNCHANGED <<exc, i>>
       \/ /\ Caught("SuccessLogError")
          /\ UNCHANGED <<success_log, outcome>>
    /\ UNCHANGED <<manifest, disk, disk_at_call, disk_first, archive, output, error_folder,
                   error_log, all_files, raised, calls>>

\* an exception raised inside the except branch replaces the caught one
HandlerRaises(e) ==
    /\ pc' = "idle"
    /\ outcome' = "raised"
    /\ raised' = e

\* except branch: error_folder.mkdir and one iteration of
\* _copy_to_folder(all_files, error_folder)
QuarantineCopy ==
    /\ pc = "except"
    /\ i <= Len(all_files)
    /\ LET src == all_files[i] IN
         \/ /\ error_folder' = IF src \in disk THEN CopyInto(error_folder, src)
                                               ELSE error_folder
            /\ i' = i + 1
            /\ UNCHANGED <<pc, outcome, raised>>
         \/ /\ src \in disk
            /\ HandlerRaises("QuarantineCopyError")
            /\ UNCHANGED <<error_folder, i>>
    /\ UNCHANGED <<manifest, disk, disk_at_call, disk_first, archive, output, success_log,
                   error_log, all_files, exc, calls>>

\* except branch: _write_error_log(batch_id, exc), then the bare raise
ErrorLogAndRaise ==
    /\ pc = "except"
    /\ i > Len(all_files)
    /\ \/ /\ error_log' = [call |-> calls, error |-> exc]
          /\ HandlerRaises(exc)
       \/ /\ HandlerRaises("ErrorLogWriteError")
          /\ UNCHANGED error_log
    /\ UNCHANGED <<manifest, disk, disk_at_call, disk_first, archive, output, error_folder,
                   success_log, all_files, exc, i, calls>>

BatchNext ==
    \/ Call
    \/ Transform
    \/ WriteOutput
    \/ ArchiveCopy
    \/ RemoveOriginal
    \/ SuccessLog
    \/ QuarantineCopy
    \/ ErrorLogAndRaise

(***************************************************************************)
(* PART II  -  acquisition                                                 *)
(*   utils/exchange_rate_fetcher.py : fetch_rates_for_month,               *)
(*       fetch_rates_for_range, fetch_rates_chunked                        *)
(*   fetch_historical_rates_fixed.py : the completeness-aware script       *)
(*   flows/historical_backfill_flow.py : chunked backfill, tracker update  *)
(* A period dataset is modelled by its country set; an absent file or      *)
(* entry is <<>>, a present one <<x>>.                                     *)
(***************************************************************************)
VARIABLES
    csv,                    \* DATA_DIR/exchange_rates_YYYY_MM.csv of each period
    bak,                    \* the .csv.bak beside it
    tracker_file,           \* country_presence.json: period -> <<>> or <<[countries, count]>>
    run,                    \* "none" | "month" | "script" | "backfill"
    step,                   \* position inside the run
    force,                  \* the force argument of the run
    chunk_size,             \* chunk_size_months of the run
    cur,                    \* script: period of the next iteration; backfill: number of the chunk
    month_pos,              \* fetch_rates_for_range: period of the next group of df.groupby("Date")
    country_presence,       \* the script's in-memory tracker, loaded at start
    current_run_countries,  \* the script's countries per month of this run
    suspicious_months,      \* the script's list of suspicious months
    chunk_saved,            \* saved_files of the running fetch_rates_for_range call
    saved_files,            \* all_saved of fetch_rates_chunked
    failed_chunks,          \* failed_chunks of fetch_rates_chunked: list of [start, end, error]
    result,                 \* how the last fetch_rates_for_month / fetch_rates_for_range call ended:
                            \* "none" | "path" | "list" | "RuntimeError" | "OSError"
    called,                 \* history: the <<start, end>> requests sent to the IMF API in this run
    fetched                 \* history: <<period, country set>> of the last fresh fetch of this run

acqVars == <<csv, bak, tracker_file, run, step, force, chunk_size, cur, month_pos,
             country_presence, current_run_countries, suspicious_months, chunk_saved,
             saved_files, failed_chunks, result, called, fetched>>

\* number of periods of the requested range
MaxPeriods == 2
\* largest chunk_size_months
MaxChunk == 2

Periods == 1..MaxPeriods

\* len(new_countries) > 50
SanityFloor == 50

\* country sets the IMF API answers with (countries are numbered): one below the
\* floor, one above it, and one above it that lacks a country the others have
Responses ==
    {1..(SanityFloor - 1), 1..(SanityFloor + 1), 2..(SanityFloor + 2)}

Absent == <<>>
Present(x) == <<x>>
NoPeriod == [p \in Periods |-> Absent]

AcqInit ==
    /\ csv = NoPeriod
    /\ bak = NoPeriod
    /\ tracker_file = NoPeriod
    /\ run = "none"
    /\ step = "idle"
    /\ force = FALSE
    /\ chunk_size = 1
    /\ cur = 1
    /\ month_pos = 1
    /\ country_presence = NoPeriod
    /\ current_run_countries = NoPeriod
    /\ suspicious_months = {}
    /\ chunk_saved = <<>>
    /\ saved_files = <<>>
    /\ failed_chunks = <<>>
    /\ result = "none"
    /\ called = {}
    /\ fetched = Absent

\* a run begins: the state of the previous run is dropped
BeginRun(kind, f, size) ==
    /\ step \in {"idle", "done"}
    /\ run' = kind
    /\ force' = f
    /\ chunk_size' = size
    /\ cur' = 1
    /\ month_pos' = 1
    /\ suspicious_months' = {}
    /\ current_run_countries' = NoPeriod
    /\ chunk_saved' = <<>>
    /\ saved_files' = <<>>
    /\ failed_chunks' = <<>>

\* mutant of FetchRatesForMonth: a forced call removes the existing dataset before it
\* asks the IMF API
FetchRatesForMonthUnlinksFirst ==
    \E p \in Periods, f \in BOOLEAN :
        /\ BeginRun("month", f, 1)
        /\ step' = "done"
        /\ country_presence' = NoPeriod
        /\ IF csv[p] # Absent /\ ~f
           THEN /\ result' = "path"
                /\ called' = {}
                /\ fetched' = Absent
                /\ UNCHANGED csv
           ELSE /\ called' = {<<p, p>>}
                /\ \/ /\ result' = "RuntimeError"
                      /\ fetched' = Absent
                      /\ csv' = [csv EXCEPT ![p] = Absent]
                   \/ \E df \in Responses :
                        /\ fetched' = <<p, df>>
                        /\ \/ /\ csv' = [csv EXCEPT ![p] = Present(df)]
                              /\ result' = "path"
                           \/ /\ result' = "OSError"
                              /\ csv' = [csv EXCEPT ![p] = Absent]
        /\ UNCHANGED <<bak, tracker_file>>

\* fetch_rates_for_month(year_month_api, force): one call, from the existence check
\* to the return or the raise
FetchRatesForMonth ==
    \E p \in Periods, f \in BOOLEAN :
        /\ BeginRun("month", f, 1)
        /\ step' = "done"
        /\ country_presence' = NoPeriod
        /\ IF csv[p] # Absent /\ ~f
           THEN /\ result' = "path"
                /\ called' = {}
                /\ fetched' = Absent
                /\ UNCHANGED csv
           ELSE /\ called' = {<<p, p>>}
                /\ \/ \* no answer or an empty parse
                      /\ result' = "RuntimeError"
                      /\ fetched' = Absent
                      /\ UNCHANGED csv
                   \/ \E df \in Responses :
                        /\ fetched' = <<p, df>>
                        /\ \/ /\ csv' = [csv EXCEPT ![p] = Present(df)]
                              /\ result' = "path"
                           \/ \* to_csv raises
                              /\ result' = "OSError"
                              /\ UNCHANGED csv
        /\ UNCHANGED <<bak, tracker_file>>

(***************************************************************************)
(* fetch_historical_rates_fixed.py                                         *)
(***************************************************************************)
\* module start: the tracker is loaded, the loop starts at the first month
ScriptStart ==
    /\ BeginRun("script", FALSE, 1)
    /\ step' = "loop"
    /\ country_presence' = tracker_file
    /\ called' = {}
    /\ fetched' = Absent
    /\ result' = "none"
    /\ UNCHANGED <<csv, bak, tracker_file>>

\* mutant of MissingCountries: the difference taken the wrong way round
MissingCountriesSwapped(expected, existing) == existing \ expected

\* missing_countries = expected_countries - existing_countries
MissingCountries(expected, existing) == expected \ existing

\* should_fetch for a month whose file exists: only when the month is tracked and
\* countries are missing
RefetchExisting(existing, entry) ==
    /\ entry # Absent
    /\ MissingCountries(entry[1].countries, existing) # {}

\* len(new_countries) > 50
Reasonable(new_countries) == Cardinality(new_countries) > SanityFloor

\* the loop goes to the next month, or ends
ScriptAdvance ==
    IF cur = MaxPeriods THEN step' = "merge" /\ cur' = cur
                        ELSE step' = "loop" /\ cur' = cur + 1

\* one iteration of the month loop
ScriptMonth ==
    /\ run = "script"
    /\ step = "loop"
    /\ ScriptAdvance
    /\ LET p == cur
           existing == csv[p]
       IN
       IF existing # Absent /\ ~RefetchExisting(existing[1], country_presence[p])
       THEN \* already exists: skipped, its countries tracked
            /\ current_run_countries' = [current_run_countries EXCEPT ![p] = existing]
            /\ UNCHANGED <<csv, bak, called, fetched, suspicious_months>>
       ELSE \* fetch from IMF
            /\ called' = called \cup {<<p, p>>}
            /\ \/ \* no answer, no data, or an exception: months_failed
                  UNCHANGED <<csv, bak, fetched, suspicious_months, current_run_countries>>
               \/ \E new_countries \in Responses :
                    /\ fetched' = <<p, new_countries>>
                    /\ IF Reasonable(new_countries)
                       THEN /\ UNCHANGED suspicious_months
                            /\ \/ \* old file renamed to .csv.bak, new file saved
                                  /\ bak' = IF existing # Absent
                                            THEN [bak EXCEPT ![p] = existing] ELSE bak
                                  /\ csv' = [csv EXCEPT ![p] = Present(new_countries)]
                                  /\ current_run_countries' =
                                        [current_run_countries EXCEPT
                                            ![p] = Present(new_countries)]
                               \/ \* old file renamed, to_csv raises
                                  /\ existing # Absent
                                  /\ bak' = [bak EXCEPT ![p] = existing]
                                  /\ csv' = [csv EXCEPT ![p] = Absent]
                                  /\ UNCHANGED current_run_countries
                               \/ \* rename raises (a .csv.bak is in the way), or
                                  \* to_csv raises with no old file
                                  /\ existing # Absent => bak[p] # Absent
                                  /\ UNCHANGED <<csv, bak, current_run_countries>>
                       ELSE /\ suspicious_months' = suspicious_months \cup {p}
                            /\ UNCHANGED <<csv, bak, current_run_countries>>
    /\ UNCHANGED <<tracker_file, run, force, chunk_size, month_pos, country_presence,
                   chunk_saved, saved_files, failed_chunks, result>>

\* mutant of MergedEntry: an entry that exists is kept as it is
MergedEntryKeepsOld(entry, countries) ==
    IF entry = Absent
    THEN Present([countries |-> countries, count |-> Cardinality(countries)])
    ELSE entry

\* the entry the script stores for a month of this run
MergedEntry(entry, countries) ==
    IF entry = Absent
    THEN Present([countries |-> countries, count |-> Cardinality(countries)])
    ELSE LET updated == entry[1].countries \cup countries
         IN Present([countries |-> updated, count |-> Cardinality(updated)])

\* "Merge with existing data" and json.dump of the tracker
ScriptSaveTracker ==
    /\ run = "script"
    /\ step = "merge"
    /\ LET merged == [p \in Periods |->
                        IF current_run_countries[p] = Absent THEN country_presence[p]
                        ELSE MergedEntry(country_presence[p], current_run_countries[p][1])]
       IN /\ country_presence' = merged
          /\ tracker_file' = merged
    /\ step' = "done"
    /\ UNCHANGED <<csv, bak, run, force, chunk_size, cur, month_pos, current_run_countries,
                   suspicious_months, chunk_saved, saved_files, failed_chunks, result,
                   called, fetched>>

(***************************************************************************)
(* historical_backfill_flow: fetch_rates_chunked, then the tracker update  *)
(***************************************************************************)
Min(a, b) == IF a < b THEN a ELSE b

\* number of chunks for n months
ChunkCount(n, size) == (n + size - 1) \div size

\* the k-th (chunk_start, chunk_end) of fetch_rates_chunked
Chunk(k, size) == <<(k - 1) * size + 1, Min(k * size, MaxPeriods)>>

BackfillStart ==
    \E f \in BOOLEAN, size \in 1..MaxChunk :
        /\ BeginRun("backfill", f, size)
        /\ step' = "chunk"
        /\ country_presence' = NoPeriod
        /\ called' = {}
        /\ fetched' = Absent
        /\ result' = "none"
        /\ UNCHANGED <<csv, bak, tracker_file>>

\* mutant of NextChunk: the loop over the chunks ends with the current chunk
NextChunkAborts ==
    step' = "tracker" /\ cur' = cur

\* after a chunk: the next chunk, or the end of fetch_rates_chunked
NextChunk ==
    IF cur = ChunkCount(MaxPeriods, chunk_size)
    THEN step' = "tracker" /\ cur' = cur
    ELSE step' = "chunk" /\ cur' = cur + 1

\* failed_chunks.append({"start": chunk_start, "end": chunk_end, "error": str(exc)})
FailedChunk(chunk, error) == [start |-> chunk[1], end |-> chunk[2], error |-> error]

\* fetch_rates_for_range raises: the except clause of fetch_rates_chunked records the
\* chunk and the loop goes on
RangeRaises(error) ==
    /\ failed_chunks' = Append(failed_chunks, FailedChunk(Chunk(cur, chunk_size), error))
    /\ result' = error
    /\ NextChunk

\* fetch_rates_for_range up to the parsed DataFrame: one IMF call for the chunk
ChunkFetch ==
    /\ run = "backfill"
    /\ step = "chunk"
    /\ called' = called \cup {Chunk(cur, chunk_size)}
    /\ chunk_saved' = <<>>
    /\ \/ \* RuntimeError (no data, empty parse): the chunk is recorded as failed
          /\ RangeRaises("RuntimeError")
          /\ UNCHANGED month_pos
       \/ /\ step' = "save"
          /\ month_pos' = Chunk(cur, chunk_size)[1]
          /\ UNCHANGED <<failed_chunks, cur, result>>
    /\ UNCHANGED <<csv, bak, tracker_file, run, force, chunk_size, country_presence,
                   current_run_countries, suspicious_months, saved_files, fetched>>

\* after a month of the chunk: the next month, or the return of fetch_rates_for_range
\* and all_saved.extend(saved)
RangeAdvance(saved) ==
    IF month_pos = Chunk(cur, chunk_size)[2]
    THEN /\ saved_files' = saved_files \o saved
         /\ chunk_saved' = <<>>
         /\ result' = "list"
         /\ NextChunk
         /\ UNCHANGED month_pos
    ELSE /\ chunk_saved' = saved
         /\ month_pos' = month_pos + 1
         /\ UNCHANGED <<saved_files, step, cur, result>>

\* one month of the loop over df.groupby("Date") in fetch_rates_for_range
RangeSaveMonth ==
    /\ run = "backfill"
    /\ step = "save"
    /\ LET p == month_pos IN
         \/ \* the answer has no row for this month
            /\ RangeAdvance(chunk_saved)
            /\ UNCHANGED <<csv, fetched, failed_chunks>>
         \/ \E month_df \in Responses :
              IF csv[p] # Absent /\ ~force
              THEN \* Skip: already exists
                   /\ RangeAdvance(Append(chunk_saved, p))
                   /\ UNCHANGED <<csv, fetched, failed_chunks>>
              ELSE /\ fetched' = <<p, month_df>>
                   /\ \/ /\ csv' = [csv EXCEPT ![p] = Present(month_df)]
                         /\ RangeAdvance(Append(chunk_saved, p))
                         /\ UNCHANGED failed_chunks
                      \/ \* to_csv raises: the call ends, the chunk is recorded as failed
                         /\ RangeRaises("OSError")
                         /\ chunk_saved' = <<>>
                         /\ UNCHANGED <<csv, saved_files, month_pos>>
    /\ UNCHANGED <<bak, tracker_file, run, force, chunk_size, country_presence,
                   current_run_countries, suspicious_months, called>>

\* the entry _update_tracker_from_csvs leaves for a month whose CSV holds `countries`
TrackerEntryFromCsv(entry, countries) ==
    LET existing == IF entry = Absent THEN {} ELSE entry[1].countries
    IN IF countries # existing
       THEN Present([countries |-> countries, count |-> Cardinality(countries)])
       ELSE entry

\* _load_tracker, _update_tracker_from_csvs, _save_tracker
UpdateTracker ==
    /\ run = "backfill"
    /\ step = "tracker"
    /\ tracker_file' = [p \in Periods |->
                           IF csv[p] = Absent THEN tracker_file[p]
                           ELSE TrackerEntryFromCsv(tracker_file[p], csv[p][1])]
    /\ step' = "done"
    /\ UNCHANGED <<csv, bak, run, force, chunk_size, cur, month_pos, country_presence,
                   current_run_countries, suspicious_months, chunk_saved, saved_files,
                   failed_chunks, result, called, fetched>>

AcqNext ==
    \/ FetchRatesForMonth
    \/ ScriptStart
    \/ ScriptMonth
    \/ ScriptSaveTracker
    \/ BackfillStart
    \/ ChunkFetch
    \/ RangeSaveMonth
    \/ UpdateTracker

(***************************************************************************)
(* PART III  -  validation                                                 *)
(*   utils/imf_data_validator.py : the single-month checks and build_report*)
(* A dataset is the table pandas reads from the CSV: its column names and  *)
(* its rows in file order.  A rate is an integer number of RateUnit =      *)
(* 0.00005, so that both configured thresholds are whole numbers; NaN (an  *)
(* empty or non-numeric cell after pd.to_numeric) is <<>>.                 *)
(***************************************************************************)
VARIABLES
    dataset,            \* the file at csv_path: <<>> or <<[columns, rows]>>
    prev_dataset,       \* the file of the preceding month: <<>> or <<[columns, rows]>>
    imf_countries,      \* the live country list handed to build_report
    imf_rates,          \* what fetch_imf_rates_for_month returns: country -> rate ({} on failure)
    include_rate_check, \* the include_rate_check argument
    rates_fetched,      \* TRUE once build_report has called fetch_imf_rates_for_month
    val_result,         \* "none", "report", "FileNotFoundError", "ValueError", "KeyError"
    report,             \* the dict build_report returned: <<>> or <<report>>
    prefect,            \* TRUE when "from prefect import task" succeeded at import
    fail_on_issues,     \* the fail_on_issues argument of validate_exchange_rate_data
    task_result,        \* "none", "returned", or the exception the task raised
    task_try,           \* runs of the task body so far
    saved               \* the reports save_report wrote to VALIDATION_DIR, in order

valVars == <<dataset, prev_dataset, imf_countries, imf_rates, include_rate_check,
             rates_fetched, val_result, report, prefect, fail_on_issues, task_result,
             task_try, saved>>

\* retries=1 of the task validate_exchange_rate_data
TaskRetries == 1

\* longest dataset
MaxRows == 2

MAX_REASONABLE_RATE == 2000000000
MIN_REASONABLE_RATE == 2
\* 1.0 in rate units
OneRate == 20000

\* the exemption list build_report's null-currency check imports from utils.config
IMF_AGGREGATE_CODES == {"G163"}

Countries == {"USA", "G163"}
ExpectedYm == "202405"
Dates == {ExpectedYm, "202404"}
NaN == <<>>
\* a Currency cell: NaN, a code, or the text None that a resolver miss leaves
Currencies == {NaN, <<"USD">>, <<"None">>}
\* NaN, -5.0, 0, 0.00005, 1.0 and 100000.00005
Rates == {NaN, <<0 - 5 * OneRate>>, <<0>>, <<MIN_REASONABLE_RATE - 1>>, <<OneRate>>,
          <<MAX_REASONABLE_RATE + 1>>}
LiveRates == {0, OneRate}
Required == {"Country", "Currency", "Date", "Exchange_Rate", "Base_Currency"}

Rows == [Country : Countries, Currency : Currencies, Date : Dates, Exchange_Rate : Rates]
Tables == UNION {[1..n -> Rows] : n \in 0..MaxRows}
\* readable files: complete tables, and header-only files that lack a column
DatasetFiles ==
    {Absent}
    \cup {Present([columns |-> Required, rows |-> t]) : t \in Tables}
    \cup {Present([columns |-> Required \ {c}, rows |-> <<>>]) : c \in {"Currency", "Base_Currency"}}
\* no prior file, a complete one, and a header-only one that lacks the rate column
PrevFiles ==
    {Absent,
     Present([columns |-> Required,
              rows |-> <<[Country |-> "USA", Currency |-> <<"USD">>, Date |-> "202404",
                          Exchange_Rate |-> <<OneRate \div 2>>]>>]),
     Present([columns |-> Required \ {"Exchange_Rate"}, rows |-> <<>>])}
\* the live source may list a country no dataset has
LiveCountries == Countries \cup {"GBR"}
LiveRateTables == UNION {[d -> LiveRates] : d \in SUBSET Countries}

Max(a, b) == IF a >= b THEN a ELSE b
Abs(a) == IF a >= 0 THEN a ELSE 0 - a
\* round(n / d * 100, 2), in hundredths of a percent
Pct(n, d) == (2 * n * 10000 + d) \div (2 * d)

\* mutant of check_coverage: the percentage is taken over the local countries
check_coverage_of_local(df, live) ==
    LET local == {df[k].Country : k \in 1..Len(df)}
    IN [imf_count |-> Cardinality(live),
        csv_count |-> Cardinality(local),
        coverage_pct |-> Pct(Cardinality(local \cap live), Max(Cardinality(local), 1)),
        missing_from_csv |-> live \ local,
        extra_in_csv_not_in_imf |-> local \ live]

\* _check_coverage
check_coverage(df, live) ==
    LET local == {df[k].Country : k \in 1..Len(df)}
    IN [imf_count |-> Cardinality(live),
        csv_count |-> Cardinality(local),
        coverage_pct |-> Pct(Cardinality(local \cap live), Max(Cardinality(live), 1)),
        missing_from_csv |-> live \ local,
        extra_in_csv_not_in_imf |-> local \ live]

\* str.strip() on the Currency texts of the model
Strip(s) == IF s = " " THEN "" ELSE s

\* _check_null_currencies
check_null_currencies(df) ==
    LET null_mask(r) == r.Currency = NaN \/ Strip(r.Currency[1]) \in {"None", ""}
        bad(r) == null_mask(r) /\ r.Country \notin IMF_AGGREGATE_CODES
    IN [count |-> Cardinality({k \in 1..Len(df) : bad(df[k])}),
        countries |-> {df[k].Country : k \in {j \in 1..Len(df) : bad(df[j])}}]

\* mutant of check_duplicates: no row is ever reported
check_duplicates_none(df) ==
    [count |-> 0]

\* _check_duplicates: every row that shares Country and Date with another row
check_duplicates(df) ==
    LET dupes == {k \in 1..Len(df) :
                     \E j \in 1..Len(df) :
                         j # k /\ df[j].Country = df[k].Country /\ df[j].Date = df[k].Date}
    IN [count |-> Cardinality(dupes)]

\* _check_anomalous_rates with < 0 in the place of <= 0
check_anomalous_rates_negative_only(df) ==
    LET null_r(r) == r.Exchange_Rate = NaN
        zero_neg(r) == r.Exchange_Rate # NaN /\ r.Exchange_Rate[1] < 0
        too_large(r) == r.Exchange_Rate # NaN /\ r.Exchange_Rate[1] > MAX_REASONABLE_RATE
        too_small(r) == /\ r.Exchange_Rate # NaN
                        /\ r.Exchange_Rate[1] > 0
                        /\ r.Exchange_Rate[1] < MIN_REASONABLE_RATE
    IN [null_count |-> Cardinality({k \in 1..Len(df) : null_r(df[k])}),
        zero_or_neg_count |-> Cardinality({k \in 1..Len(df) : zero_neg(df[k])}),
        implausibly_large_count |-> Cardinality({k \in 1..Len(df) : too_large(df[k])}),
        implausibly_small_count |-> Cardinality({k \in 1..Len(df) : too_small(df[k])})]

\* _check_anomalous_rates; a comparison with NaN is false
check_anomalous_rates(df) ==
    LET null_r(r) == r.Exchange_Rate = NaN
        zero_neg(r) == r.Exchange_Rate # NaN /\ r.Exchange_Rate[1] <= 0
        too_large(r) == r.Exchange_Rate # NaN /\ r.Exchange_Rate[1] > MAX_REASONABLE_RATE
        too_small(r) == /\ r.Exchange_Rate # NaN
                        /\ r.Exchange_Rate[1] > 0
                        /\ r.Exchange_Rate[1] < MIN_REASONABLE_RATE
    IN [null_count |-> Cardinality({k \in 1..Len(df) : null_r(df[k])}),
        zero_or_neg_count |-> Cardinality({k \in 1..Len(df) : zero_neg(df[k])}),
        implausibly_large_count |-> Cardinality({k \in 1..Len(df) : too_large(df[k])}),
        implausibly_small_count |-> Cardinality({k \in 1..Len(df) : too_small(df[k])})]

\* _check_date_coverage
check_date_coverage(df, expected_ym) ==
    LET wrong(r) == r.Date # expected_ym
    IN [expected |-> expected_ym, wrong_count |-> Cardinality({k \in 1..Len(df) : wrong(df[k])})]

\* _check_mom_changes: inner merge on Country, NaN rows and zero previous rates
\* dropped, flagged when |curr - prev| / prev > 0.30
check_mom_changes(df, prev) ==
    IF prev = Absent
    THEN [skipped |-> TRUE, large_movers_count |-> 0]
    ELSE LET old == prev[1].rows
             merged == {<<k, j>> \in (1..Len(df)) \X (1..Len(old)) :
                           /\ df[k].Country = old[j].Country
                           /\ df[k].Exchange_Rate # NaN
                           /\ old[j].Exchange_Rate # NaN
                           /\ old[j].Exchange_Rate[1] # 0}
             flagged == {m \in merged :
                           LET c == df[m[1]].Exchange_Rate[1]
                               p == old[m[2]].Exchange_Rate[1]
                           IN p > 0 /\ Abs(c - p) > (3 * p) \div 10}
         IN [skipped |-> FALSE, large_movers_count |-> Cardinality(flagged)]

\* pd.read_csv(prev_path)[["Country", "Exchange_Rate"]]: KeyError when the prior file has
\* not both columns
mom_raises(prev) ==
    prev # Absent /\ ~({"Country", "Exchange_Rate"} \subseteq prev[1].columns)

\* a live value of zero taken for a match of any stored value
RateMatchesAnyOnZero(csv_rate, imf_rate) ==
    IF imf_rate = 0
    THEN TRUE
    ELSE csv_rate # NaN /\ Abs(csv_rate[1] - imf_rate) <= Abs(imf_rate) \div 1000

\* one row of _check_rate_accuracy: abs(csv - imf) / abs(imf) <= 0.001
RateMatches(csv_rate, imf_rate) ==
    IF imf_rate = 0
    THEN csv_rate # NaN /\ csv_rate[1] = 0
    ELSE csv_rate # NaN /\ Abs(csv_rate[1] - imf_rate) <= Abs(imf_rate) \div 1000

\* the diff_pct of a mismatch entry: the text "N/A (IMF=0)", nan for a NaN stored rate,
\* or the percentage of |csv - imf| / |imf|, held as the two terms of the ratio
DiffPct(csv_rate, imf_rate) ==
    IF imf_rate = 0 THEN [kind |-> "N/A (IMF=0)", num |-> 0, den |-> 0]
    ELSE IF csv_rate = NaN THEN [kind |-> "nan", num |-> 0, den |-> 0]
    ELSE [kind |-> "percentage", num |-> Abs(csv_rate[1] - imf_rate), den |-> Abs(imf_rate)]

\* _check_rate_accuracy.  mismatches holds the entry of every mismatching row under the
\* position of the row; the order sorted() gives the list is not kept.
check_rate_accuracy(df, live) ==
    IF DOMAIN live = {}
    THEN [skipped |-> TRUE, checked |-> 0, matches |-> 0, mismatches_count |-> 0,
          accuracy_pct |-> 0, mismatches |-> <<>>]
    ELSE LET in_live(r) == r.Country \in DOMAIN live
             match(r) == in_live(r) /\ RateMatches(r.Exchange_Rate, live[r.Country])
             mismatch(r) == in_live(r) /\ ~RateMatches(r.Exchange_Rate, live[r.Country])
         IN [skipped |-> FALSE,
             checked |-> Cardinality({k \in 1..Len(df) : in_live(df[k])}),
             matches |-> Cardinality({k \in 1..Len(df) : match(df[k])}),
             mismatches_count |-> Cardinality({k \in 1..Len(df) : mismatch(df[k])}),
             accuracy_pct |-> Pct(Cardinality({k \in 1..Len(df) : match(df[k])}),
                                  Max(Cardinality({k \in 1..Len(df) : in_live(df[k])}), 1)),
             mismatches |-> [k \in {n \in 1..Len(df) : mismatch(df[n])} |->
                               [country |-> df[k].Country,
                                csv_rate |-> df[k].Exchange_Rate,
                                imf_rate |-> live[df[k].Country],
                                diff_pct |-> DiffPct(df[k].Exchange_Rate,
                                                     live[df[k].Country])]]]

NotRun == [skipped |-> TRUE, checked |-> 0, matches |-> 0, mismatches_count |-> 0,
           accuracy_pct |-> 0, mismatches |-> <<>>]

\* the issues list of build_report, in the order the code appends to it
Issues(checks, with_rates) ==
    LET an == checks.anomalous_rates
        item(cond, kind, n) == IF cond THEN <<[kind |-> kind, n |-> n]>> ELSE <<>>
    IN item(checks.country_coverage.missing_from_csv # {}, "missing_from_csv",
            Cardinality(checks.country_coverage.missing_from_csv))
       \o item(checks.null_currency_codes.count # 0, "null_currency",
               checks.null_currency_codes.count)
       \o item(checks.duplicate_records.count # 0, "duplicates",
               checks.duplicate_records.count)
       \o item(an.null_count # 0, "null_rates", an.null_count)
       \o item(an.zero_or_neg_count # 0, "zero_or_neg", an.zero_or_neg_count)
       \o item(checks.date_coverage.wrong_count # 0, "wrong_date",
               checks.date_coverage.wrong_count)
       \o item(with_rates /\ checks.rate_accuracy.mismatches_count > 0, "rate_mismatches",
               checks.rate_accuracy.mismatches_count)

\* the dict build_report returns for a readable, complete table
Report(df, prev, live_countries, live_rates, with_rates) ==
    LET checks == [country_coverage |-> check_coverage(df, live_countries),
                   null_currency_codes |-> check_null_currencies(df),
                   duplicate_records |-> check_duplicates(df),
                   anomalous_rates |-> check_anomalous_rates(df),
                   date_coverage |-> check_date_coverage(df, ExpectedYm),
                   month_on_month_changes |-> check_mom_changes(df, prev),
                   rate_accuracy |-> IF with_rates THEN check_rate_accuracy(df, live_rates)
                                     ELSE NotRun]
        issues == Issues(checks, with_rates)
    IN [total_rows |-> Len(df),
        overall_status |-> IF issues = <<>> THEN "PASS" ELSE "FAIL",
        issues |-> issues,
        mom_note |-> checks.month_on_month_changes.large_movers_count > 0,
        checks |-> checks]

\* validate_exchange_rate_data not called, nothing in VALIDATION_DIR
TaskIdle ==
    /\ prefect = TRUE
    /\ fail_on_issues = FALSE
    /\ task_result = "none"
    /\ task_try = 0
    /\ saved = <<>>

ValInit ==
    /\ dataset \in DatasetFiles
    /\ prev_dataset \in PrevFiles
    /\ imf_countries \in SUBSET Countries
    /\ include_rate_check \in BOOLEAN
    /\ imf_rates \in IF include_rate_check THEN LiveRateTables ELSE {<<>>}
    /\ rates_fetched = FALSE
    /\ val_result = "none"
    /\ report = Absent
    /\ TaskIdle

\* the validator at rest
ValIdle ==
    /\ dataset = Absent
    /\ prev_dataset = Absent
    /\ imf_countries = {}
    /\ include_rate_check = FALSE
    /\ imf_rates = <<>>
    /\ rates_fetched = FALSE
    /\ val_result = "none"
    /\ report = Absent
    /\ TaskIdle

\* build_report without its test of the columns
build_result_unchecked(ds, prev) ==
    IF ds = Absent THEN "FileNotFoundError"
    ELSE IF mom_raises(prev) THEN "KeyError"
    ELSE "report"

\* how build_report ends on a dataset file and a prior file: the exception it raises,
\* or "report"
build_result(ds, prev) ==
    IF ds = Absent THEN "FileNotFoundError"
    ELSE IF Required \ ds[1].columns # {} THEN "ValueError"
    ELSE IF mom_raises(prev) THEN "KeyError"
    ELSE "report"

\* build_report(csv_path, imf_countries, expected_ym, year_month_api, include_rate_check)
BuildReport ==
    /\ val_result = "none"
    /\ val_result' = build_result(dataset, prev_dataset)
    /\ IF build_result(dataset, prev_dataset) = "report"
       THEN /\ rates_fetched' = include_rate_check
            /\ report' = Present(Report(dataset[1].rows, prev_dataset, imf_countries,
                                        imf_rates, include_rate_check))
       ELSE UNCHANGED <<report, rates_fetched>>
    /\ UNCHANGED <<dataset, prev_dataset, imf_countries, imf_rates, include_rate_check,
                   prefect, fail_on_issues, task_result, task_try, saved>>

\* validate_exchange_rate_data(csv_path, fail_on_issues, include_rate_check): one run of
\* its body.  With Prefect it is the task: country list, build_report, save_report, then
\* ValueError on FAIL when fail_on_issues; a raised run is run again once.  Without
\* Prefect it is the fallback definition: country list, then return build_report(...).
\* The live source answers each run anew; the write of the report succeeds.
ValidateTask ==
    /\ \/ task_result = "none" /\ task_try = 0
       \/ prefect /\ task_result \notin {"none", "returned"} /\ task_try <= TaskRetries
    /\ task_try' = task_try + 1
    /\ imf_countries' \in SUBSET Countries
    /\ imf_rates' \in IF include_rate_check THEN LiveRateTables ELSE {<<>>}
    /\ val_result' = build_result(dataset, prev_dataset)
    /\ IF build_result(dataset, prev_dataset) # "report"
       THEN /\ task_result' = build_result(dataset, prev_dataset)
            /\ UNCHANGED <<report, rates_fetched, saved>>
       ELSE LET r == Report(dataset[1].rows, prev_dataset, imf_countries', imf_rates',
                            include_rate_check)
            IN /\ report' = Present(r)
               /\ rates_fetched' = (rates_fetched \/ include_rate_check)
               /\ IF prefect
                  THEN /\ saved' = Append(saved, r)
                       /\ task_result' = IF r.overall_status = "FAIL" /\ fail_on_issues
                                         THEN "ValueError" ELSE "returned"
                  ELSE /\ saved' = saved
                       /\ task_result' = "returned"
    /\ UNCHANGED <<dataset, prev_dataset, include_rate_check, prefect, fail_on_issues>>

(***************************************************************************)
(* PART IV  -  cross-validation                                            *)
(*   utils/imf_data_validator.py : cross_validate_historical               *)
(* A month is its index in Periods.  The content of a month's CSV and the  *)
(* answer of the live source are drawn when the loop reads them.  A month  *)
(* result keeps month, status and the accuracy figures; the figures a      *)
(* csv_error or imf_fetch_failed entry does not have are 0, the default    *)
(* the summary reads them with.  Percentages of the summary are held in    *)
(* ten-thousandths of a percent, those of a month in hundredths.           *)
(***************************************************************************)
VARIABLES
    cv_available,      \* months that have a CSV in DATA_DIR
    cv_step,           \* "idle", "loop", "done"
    cv_result,         \* "none", "error" (no CSV at all), "report"
    months_to_check,   \* the selected months, in order
    cv_idx,            \* position of the loop in months_to_check
    results,           \* monthly_details
    total_checked,
    total_matches,
    total_mismatches,
    failed_fetches,    \* months whose live fetch gave nothing
    cv_report          \* the dict returned: <<>> or <<report>>

cvVars == <<cv_available, cv_step, cv_result, months_to_check, cv_idx, results,
            total_checked, total_matches, total_mismatches, failed_fetches, cv_report>>

\* stored rates around the live rate 1.0: equal, 0.05% off, 0.2% off, and 0, NaN
CvRates == {NaN, <<0>>, <<OneRate>>, <<OneRate + 10>>, <<OneRate + 40>>}
CvRows == {r \in Rows : /\ r.Currency = <<"USD">>
                        /\ r.Date = ExpectedYm
                        /\ r.Exchange_Rate \in CvRates}
CvTables == UNION {[1..n -> CvRows] : n \in 0..MaxRows}

\* sorted(...) of a set of months
Sorted(S) ==
    CHOOSE s \in [1..Cardinality(S) -> S] : \A a, b \in 1..Cardinality(S) : a < b => s[a] < s[b]

\* round(n / d * 100, 4), in ten-thousandths of a percent
Pct4(n, d) == (2 * n * 1000000 + d) \div (2 * d)

CvIdle ==
    /\ cv_available = {}
    /\ cv_step = "idle"
    /\ cv_result = "none"
    /\ months_to_check = <<>>
    /\ cv_idx = 1
    /\ results = <<>>
    /\ total_checked = 0
    /\ total_matches = 0
    /\ total_mismatches = 0
    /\ failed_fetches = <<>>
    /\ cv_report = Absent

CvInit ==
    /\ cv_available \in SUBSET Periods
    /\ cv_step = "idle"
    /\ cv_result = "none"
    /\ months_to_check = <<>>
    /\ cv_idx = 1
    /\ results = <<>>
    /\ total_checked = 0
    /\ total_matches = 0
    /\ total_mismatches = 0
    /\ failed_fetches = <<>>
    /\ cv_report = Absent

\* the months a call selects: range filter (both ends given), then random.sample
Selections(range, sample_months) ==
    LET filtered == IF range = Absent THEN cv_available
                    ELSE {m \in cv_available : range[1] <= m /\ m <= range[2]}
    IN IF sample_months # 0 /\ sample_months < Cardinality(filtered)
       THEN {Sorted(S) : S \in {T \in SUBSET filtered : Cardinality(T) = sample_months}}
       ELSE {Sorted(filtered)}

\* cross_validate_historical up to the loop
CvStart ==
    /\ cv_step = "idle"
    /\ IF cv_available = {}
       THEN /\ cv_step' = "done"
            /\ cv_result' = "error"
            /\ UNCHANGED months_to_check
       ELSE /\ \E range \in {Absent} \cup {<<lo, hi>> : lo \in Periods, hi \in Periods},
                  sample_months \in 0..MaxPeriods :
                  months_to_check' \in Selections(range, sample_months)
            /\ cv_step' = "loop"
            /\ UNCHANGED cv_result
    /\ UNCHANGED <<cv_available, cv_idx, results, total_checked, total_matches,
                   total_mismatches, failed_fetches, cv_report>>

MonthResult(month, status, accuracy) ==
    [month |-> month, status |-> status, checked |-> accuracy.checked,
     matches |-> accuracy.matches, mismatches_count |-> accuracy.mismatches_count,
     accuracy_pct |-> accuracy.accuracy_pct]

\* one iteration of the loop over months_to_check
CvMonth ==
    /\ cv_step = "loop"
    /\ cv_idx <= Len(months_to_check)
    /\ LET ym_api == months_to_check[cv_idx] IN
         \/ \* pd.read_csv raises
            /\ results' = Append(results, MonthResult(ym_api, "csv_error", NotRun))
            /\ UNCHANGED <<total_checked, total_matches, total_mismatches, failed_fetches>>
         \/ \E df \in CvTables, live \in LiveRateTables :
              IF DOMAIN live = {}
              THEN /\ failed_fetches' = Append(failed_fetches, ym_api)
                   /\ results' = Append(results, MonthResult(ym_api, "imf_fetch_failed", NotRun))
                   /\ UNCHANGED <<total_checked, total_matches, total_mismatches>>
              ELSE LET accuracy == check_rate_accuracy(df, live) IN
                   /\ results' = Append(results, MonthResult(ym_api, "validated", accuracy))
                   /\ total_checked' = total_checked + accuracy.checked
                   /\ total_matches' = total_matches + accuracy.matches
                   /\ total_mismatches' = total_mismatches + accuracy.mismatches_count
                   /\ UNCHANGED failed_fetches
    /\ cv_idx' = cv_idx + 1
    /\ UNCHANGED <<cv_available, cv_step, cv_result, months_to_check, cv_report>>

\* mutant of CvReport: the status looks at the mismatches only
CvReportIgnoresFetches ==
    LET validated == SelectSeq(results, LAMBDA r : r.status = "validated")
        perfect == SelectSeq(validated, LAMBDA r : r.mismatches_count = 0)
        imperfect == SelectSeq(validated, LAMBDA r : r.mismatches_count > 0)
    IN [summary |-> [months_checked |-> Len(months_to_check),
                     months_validated |-> Len(validated),
                     months_perfect |-> Len(perfect),
                     months_with_mismatches |-> Len(imperfect),
                     fetch_failures |-> Len(failed_fetches),
                     total_rates_checked |-> total_checked,
                     total_matches |-> total_matches,
                     total_mismatches |-> total_mismatches,
                     overall_accuracy_pct |-> Pct4(total_matches, Max(total_checked, 1))],
        overall_status |-> IF total_mismatches = 0 THEN "PASS" ELSE "REVIEW",
        failed_fetches |-> failed_fetches,
        imperfect_months |-> [k \in 1..Len(imperfect) |->
                                 [month |-> imperfect[k].month,
                                  mismatches |-> imperfect[k].mismatches_count,
                                  accuracy |-> imperfect[k].accuracy_pct]],
        monthly_details |-> results]

\* the report dict built after the loop
CvReport ==
    LET validated == SelectSeq(results, LAMBDA r : r.status = "validated")
        perfect == SelectSeq(validated, LAMBDA r : r.mismatches_count = 0)
        imperfect == SelectSeq(validated, LAMBDA r : r.mismatches_count > 0)
    IN [summary |-> [months_checked |-> Len(months_to_check),
                     months_validated |-> Len(validated),
                     months_perfect |-> Len(perfect),
                     months_with_mismatches |-> Len(imperfect),
                     fetch_failures |-> Len(failed_fetches),
                     total_rates_checked |-> total_checked,
                     total_matches |-> total_matches,
                     total_mismatches |-> total_mismatches,
                     overall_accuracy_pct |-> Pct4(total_matches, Max(total_checked, 1))],
        overall_status |-> IF total_mismatches = 0 /\ failed_fetches = <<>>
                           THEN "PASS" ELSE "REVIEW",
        failed_fetches |-> failed_fetches,
        imperfect_months |-> [k \in 1..Len(imperfect) |->
                                 [month |-> imperfect[k].month,
                                  mismatches |-> imperfect[k].mismatches_count,
                                  accuracy |-> imperfect[k].accuracy_pct]],
        monthly_details |-> results]

\* the end of cross_validate_historical: build the summary and return
CvFinish ==
    /\ cv_step = "loop"
    /\ cv_idx > Len(months_to_check)
    /\ cv_report' = Present(CvReport)
    /\ cv_result' = "report"
    /\ cv_step' = "done"
    /\ UNCHANGED <<cv_available, months_to_check, cv_idx, results, total_checked,
                   total_matches, total_mismatches, failed_fetches>>

(***************************************************************************)
(* PART V  -  the currency code resolver                                   *)
(*   utils/exchange_rate_fetcher.py : _load_cache, _save_cache,            *)
(*       _fetch_currency_from_api, resolve_currency_codes                  *)
(* A Python value is <<>> for None and <<s>> for the string s; a JSON      *)
(* value is <<"null">> or <<"string", s>>.  A dict is a function on the    *)
(* set of its keys.  country_codes has no duplicates: the caller passes    *)
(* list({...}).  Writes of the cache file succeed; a file that cannot be   *)
(* read or parsed is a possible state of the data directory at start.      *)
(***************************************************************************)
VARIABLES
    cache_file,       \* CURRENCY_CACHE_FILE: <<>> (absent) or <<[readable, json]>>
    currency_cache,   \* _currency_cache of the running process
    res_step,         \* "idle", "fetch" (the pool is running), "done" (returned)
    country_codes,    \* the codes of the current call
    res_result,       \* result
    to_fetch,         \* to_fetch
    futures,          \* code of to_fetch -> [state, attempt, value]
    looked_up,        \* history: codes for which this call sent a request to the lookup source
    unresolved,       \* history: codes a collected lookup stored as None
    flushes,          \* history: calls of _save_cache made by the current call
    ever_looked_up    \* history: codes for which any call sent a request to the lookup source

resVars == <<cache_file, currency_cache, res_step, country_codes, res_result, to_fetch,
             futures, looked_up, unresolved, flushes, ever_looked_up>>

REST_COUNTRIES_MAX_WORKERS == 10
\* for attempt in range(3)
LookupAttempts == 3

SPECIAL_CURRENCY_OVERRIDES ==
    [c \in {"CUW", "SXM", "G163"} |-> IF c = "G163" THEN "EUR" ELSE "XCG"]

\* an override code, a country, and a territory without a currency
Codes == {"G163", "USA", "ATA"}
None == <<>>
PyValues == {None, <<"USD">>}
Dicts == UNION {[d -> PyValues] : d \in SUBSET Codes}
EmptyDict == [c \in {} |-> None]

\* json.dump and json.load of a dict of strings and None
Dump(cache) ==
    [c \in DOMAIN cache |-> IF cache[c] = None THEN <<"null">> ELSE <<"string", cache[c][1]>>]
Parse(json) ==
    [c \in DOMAIN json |-> IF json[c][1] = "null" THEN None ELSE <<json[c][2]>>]

\* a cache file json.load can read, and one it cannot (JSONDecodeError, OSError)
Written(json) == Present([readable |-> TRUE, json |-> json])
Corrupt == Present([readable |-> FALSE, json |-> Dump(EmptyDict)])

\* mutant of LoadCache: entries that are null in the file are dropped
LoadCacheDropsNull(file) ==
    IF file = Absent \/ ~file[1].readable
    THEN EmptyDict
    ELSE [c \in {k \in DOMAIN file[1].json : file[1].json[k][1] # "null"} |->
             Parse(file[1].json)[c]]

\* _load_cache
LoadCache(file) ==
    IF file = Absent \/ ~file[1].readable
    THEN EmptyDict
    ELSE Parse(file[1].json)

CacheFiles == {Absent, Corrupt} \cup {Written(Dump(d)) : d \in Dicts}

ResInit ==
    /\ cache_file \in CacheFiles
    /\ currency_cache = LoadCache(cache_file)
    /\ res_step = "idle"
    /\ country_codes = {}
    /\ res_result = EmptyDict
    /\ to_fetch = {}
    /\ futures = EmptyDict
    /\ looked_up = {}
    /\ unresolved = {}
    /\ flushes = 0
    /\ ever_looked_up = {}

ResIdle ==
    /\ cache_file = Absent
    /\ currency_cache = EmptyDict
    /\ res_step = "idle"
    /\ country_codes = {}
    /\ res_result = EmptyDict
    /\ to_fetch = {}
    /\ futures = EmptyDict
    /\ looked_up = {}
    /\ unresolved = {}
    /\ flushes = 0
    /\ ever_looked_up = {}

\* mutant of LocalValue: the cache is asked before the override table
LocalValueCacheFirst(code, cache) ==
    IF code \in DOMAIN cache THEN Present(cache[code])
    ELSE IF code \in DOMAIN SPECIAL_CURRENCY_OVERRIDES
    THEN Present(<<SPECIAL_CURRENCY_OVERRIDES[code]>>)
    ELSE Absent

\* the first loop of resolve_currency_codes for one code: <<value>>, or <<>> for to_fetch
LocalValue(code, cache) ==
    IF code \in DOMAIN SPECIAL_CURRENCY_OVERRIDES
    THEN Present(<<SPECIAL_CURRENCY_OVERRIDES[code]>>)
    ELSE IF code \in DOMAIN cache THEN Present(cache[code])
    ELSE Absent

\* resolve_currency_codes up to the submission of the lookups
Resolve ==
    /\ res_step \in {"idle", "done"}
    /\ \E codes \in SUBSET Codes :
         LET fetch == {c \in codes : LocalValue(c, currency_cache) = Absent} IN
         /\ country_codes' = codes
         /\ res_result' = [c \in codes \ fetch |-> LocalValue(c, currency_cache)[1]]
         /\ to_fetch' = fetch
         /\ futures' = [c \in fetch |-> [state |-> "queued", attempt |-> 0, value |-> None]]
         /\ res_step' = IF fetch = {} THEN "done" ELSE "fetch"
    /\ looked_up' = {}
    /\ flushes' = 0
    /\ UNCHANGED <<cache_file, currency_cache, unresolved, ever_looked_up>>

Running == {c \in DOMAIN futures : futures[c].state = "running"}

\* a worker of the pool takes a submitted lookup
WorkerStart ==
    /\ res_step = "fetch"
    /\ Cardinality(Running) < REST_COUNTRIES_MAX_WORKERS
    /\ \E c \in DOMAIN futures :
         /\ futures[c].state = "queued"
         /\ futures' = [futures EXCEPT ![c].state = "running"]
    /\ UNCHANGED <<cache_file, currency_cache, res_step, country_codes, res_result,
                   to_fetch, looked_up, unresolved, flushes, ever_looked_up>>

\* one attempt of _fetch_currency_from_api: a currency, or a failure (exception, or an
\* answer without currencies); None after the last attempt
LookupAttempt ==
    /\ res_step = "fetch"
    /\ \E c \in Running :
         /\ looked_up' = looked_up \cup {c}
         /\ ever_looked_up' = ever_looked_up \cup {c}
         /\ \/ futures' = [futures EXCEPT ![c] = [state |-> "finished", attempt |-> @.attempt + 1,
                                                   value |-> <<"USD">>]]
            \/ futures' = [futures EXCEPT ![c] =
                              IF @.attempt + 1 < LookupAttempts
                              THEN [state |-> "running", attempt |-> @.attempt + 1, value |-> None]
                              ELSE [state |-> "finished", attempt |-> @.attempt + 1,
                                    value |-> None]]
    /\ UNCHANGED <<cache_file, currency_cache, res_step, country_codes, res_result,
                   to_fetch, unresolved, flushes>>

\* dict assignment d[key] = value
Assign(d, key, value) ==
    [c \in DOMAIN d \cup {key} |-> IF c = key THEN value ELSE d[c]]

\* one iteration of the loop over as_completed(futures)
Collect ==
    /\ res_step = "fetch"
    /\ \E code \in DOMAIN futures :
         /\ futures[code].state = "finished"
         /\ LET currency == futures[code].value IN
              /\ res_result' = Assign(res_result, code, currency)
              /\ currency_cache' = Assign(currency_cache, code, currency)
              /\ unresolved' = IF currency = None THEN unresolved \cup {code} ELSE unresolved
         /\ futures' = [futures EXCEPT ![code].state = "collected"]
    /\ UNCHANGED <<cache_file, res_step, country_codes, to_fetch, looked_up, flushes,
                   ever_looked_up>>

\* mutant of SaveAndReturn: the cache is saved as soon as one lookup has been collected
SaveAfterFirstCollected ==
    /\ res_step = "fetch"
    /\ \E c \in DOMAIN futures : futures[c].state = "collected"
    /\ cache_file' = Written(Dump(currency_cache))
    /\ flushes' = flushes + 1
    /\ res_step' = "done"
    /\ UNCHANGED <<currency_cache, country_codes, res_result, to_fetch, futures, looked_up,
                   unresolved, ever_looked_up>>

\* the loop over as_completed and the with block have ended: _save_cache(_currency_cache)
\* and return result
SaveAndReturn ==
    /\ res_step = "fetch"
    /\ \A c \in DOMAIN futures : futures[c].state = "collected"
    /\ cache_file' = Written(Dump(currency_cache))
    /\ flushes' = flushes + 1
    /\ res_step' = "done"
    /\ UNCHANGED <<currency_cache, country_codes, res_result, to_fetch, futures, looked_up,
                   unresolved, ever_looked_up>>

\* a new process imports the module: _currency_cache = _load_cache()
Reload ==
    /\ res_step = "done"
    /\ currency_cache' = LoadCache(cache_file)
    /\ res_step' = "idle"
    /\ country_codes' = {}
    /\ res_result' = EmptyDict
    /\ to_fetch' = {}
    /\ futures' = EmptyDict
    /\ looked_up' = {}
    /\ flushes' = 0
    /\ UNCHANGED <<cache_file, unresolved, ever_looked_up>>

(***************************************************************************)
(* PART VI  -  the flow chain                                              *)
(*   flows/complete_batch_pipeline.py, flows/prepare_batch_flow.py,        *)
(*   flows/process_batch_flow.py, utils/batch_prepare.py                   *)
(* A manifest of the hot folder is its batch id, a number; NoManifest is   *)
(* the empty manifest_file argument.  run_core_processing is Part I; here  *)
(* it is what Part I shows of it at the hot folder: it returns or raises,  *)
(* and the manifest file is removed or still there (a failed os.remove is  *)
(* swallowed, and a step after the removal can still raise).  A flow that  *)
(* raises is run again by its retry policy with the same arguments.        *)
(* currency_acquisition_flow enters the chain at prepare_batch_flow().     *)
(***************************************************************************)
VARIABLES hot_dir, st_mtime, batch_id, chain, fl_pc, manifest_path, manifest_file,
          pb_try, prep_try, chains, invoked, processed, again, attempt, flow_state

flowVars == <<hot_dir, st_mtime, batch_id, chain, fl_pc, manifest_path, manifest_file,
              pb_try, prep_try, chains, invoked, processed, again, attempt, flow_state>>

MaxPending == 1
MaxManifests == 3
MaxMtime == 2
MaxChains == 2
PrepareRetries == 1

ManifestIds == 1..MaxManifests
NoManifest == 0
Chains == {"currency_acquisition_flow", "prepare_batch_flow", "process_batch_flow",
           "complete_batch_pipeline"}
NoAttempt == [arg |-> NoManifest, chosen |-> NoManifest, error |-> "none"]

FlowInit ==
    /\ hot_dir \in SUBSET (1..MaxPending)
    /\ st_mtime \in [ManifestIds -> 0..MaxMtime]
    /\ \A m \in ManifestIds : st_mtime[m] = 0 <=> m \notin hot_dir
    /\ batch_id = MaxPending
    /\ chain = "none"
    /\ fl_pc = "idle"
    /\ manifest_path = NoManifest
    /\ manifest_file = NoManifest
    /\ pb_try = 0
    /\ prep_try = 0
    /\ chains = 0
    /\ invoked = [m \in ManifestIds |-> 0]
    /\ processed = {}
    /\ again = {}
    /\ attempt = NoAttempt
    /\ flow_state = "none"

FlowIdle ==
    /\ FlowInit
    /\ hot_dir = {}

\* the entry flow ends in the given state; the locals of the flows are gone
Ended(state) ==
    /\ fl_pc' = "idle"
    /\ flow_state' = state
    /\ manifest_path' = NoManifest
    /\ manifest_file' = NoManifest
    /\ pb_try' = 0
    /\ prep_try' = 0

\* a flow is started: by hand, by its deployment, or by the acquisition flow
StartChain ==
    /\ fl_pc = "idle"
    /\ chains < MaxChains
    /\ \E c \in Chains, arg \in {NoManifest} \cup ManifestIds :
        /\ c # "process_batch_flow" => arg = NoManifest
        /\ chain' = c
        /\ fl_pc' = IF c = "process_batch_flow" THEN "process" ELSE "prepare"
        /\ manifest_file' = arg
    /\ chains' = chains + 1
    /\ pb_try' = 0
    /\ prep_try' = 0
    /\ manifest_path' = NoManifest
    /\ flow_state' = "Running"
    /\ UNCHANGED <<hot_dir, st_mtime, batch_id, invoked, processed, again, attempt>>

\* prepare_batch_flow up to its hand-off: create_batch_manifest writes the manifest of a
\* new batch id into the hot folder, or raises and the flow is retried or fails
CreateBatchManifest ==
    /\ fl_pc = "prepare"
    /\ \/ /\ batch_id < MaxManifests
          /\ \E t \in 1..MaxMtime : st_mtime' = [st_mtime EXCEPT ![batch_id + 1] = t]
          /\ batch_id' = batch_id + 1
          /\ hot_dir' = hot_dir \cup {batch_id + 1}
          /\ manifest_path' = batch_id + 1
          /\ manifest_file' = batch_id + 1
          /\ pb_try' = 0
          /\ fl_pc' = "process"
          /\ UNCHANGED <<prep_try, flow_state>>
       \/ /\ IF prep_try < PrepareRetries
             THEN /\ prep_try' = prep_try + 1
                  /\ UNCHANGED <<fl_pc, flow_state, manifest_path, manifest_file, pb_try>>
             ELSE Ended("Failed")
          /\ UNCHANGED <<hot_dir, st_mtime, batch_id>>
    /\ UNCHANGED <<chain, chains, invoked, processed, again, attempt>>

\* the other end of the sorted list: a manifest no other is older than
LatestIsOldest(dir) ==
    {m \in dir : \A o \in dir : st_mtime[m] <= st_mtime[o]}
\* sorted(glob, key=st_mtime, reverse=True)[0]: a manifest no other is newer than
Latest(dir) ==
    {m \in dir : \A o \in dir : st_mtime[o] <= st_mtime[m]}

\* the manifests the resolution can end on; none when it raises FileNotFoundError
Resolved ==
    IF manifest_file = NoManifest
    THEN Latest(hot_dir)
    ELSE IF manifest_file \in hot_dir THEN {manifest_file} ELSE {}

\* an attempt of process_batch_flow raised: the flow is run again, or it fails and the
\* exception reaches prepare_batch_flow, which is run again or fails in its turn
Raise ==
    IF pb_try < FlowRetries
    THEN /\ pb_try' = pb_try + 1
         /\ UNCHANGED <<fl_pc, prep_try, flow_state, manifest_path, manifest_file>>
    ELSE IF fl_pc = "process" /\ chain # "process_batch_flow" /\ prep_try < PrepareRetries
         THEN /\ fl_pc' = "prepare"
              /\ prep_try' = prep_try + 1
              /\ pb_try' = 0
              /\ manifest_path' = NoManifest
              /\ manifest_file' = NoManifest
              /\ UNCHANGED flow_state
         ELSE Ended("Failed")

\* process_batch_flow returned: prepare_batch_flow returns manifest_path, and
\* complete_batch_pipeline goes on to its own call of process_batch_flow
Return ==
    IF chain = "complete_batch_pipeline" /\ fl_pc = "process"
    THEN /\ fl_pc' = "process2"
         /\ manifest_file' = manifest_path
         /\ pb_try' = 0
         /\ UNCHANGED <<prep_try, flow_state, manifest_path>>
    ELSE Ended("Completed")

\* one attempt of process_batch_flow: the resolution of the manifest, then
\* run_core_processing on it.  invoked counts its calls per manifest up to two.
ProcessBatchFlow ==
    /\ fl_pc \in {"process", "process2"}
    /\ IF Resolved = {}
       THEN /\ attempt' = [arg |-> manifest_file, chosen |-> NoManifest,
                           error |-> "FileNotFoundError"]
            /\ again' = again \cup ({manifest_file} \cap processed)
            /\ Raise
            /\ UNCHANGED <<hot_dir, st_mtime, invoked, processed>>
       ELSE \E m \in Resolved, returned \in BOOLEAN, removed \in BOOLEAN :
            /\ attempt' = [arg |-> manifest_file, chosen |-> m,
                           error |-> IF returned THEN "none" ELSE "Exception"]
            /\ again' = again \cup ({m} \cap processed)
            /\ invoked' = [invoked EXCEPT ![m] = IF @ < 2 THEN @ + 1 ELSE @]
            /\ hot_dir' = IF removed THEN hot_dir \ {m} ELSE hot_dir
            /\ st_mtime' = IF removed THEN [st_mtime EXCEPT ![m] = 0] ELSE st_mtime
            /\ IF returned
               THEN processed' = processed \cup {m} /\ Return
               ELSE Raise /\ UNCHANGED processed
    /\ UNCHANGED <<batch_id, chain, chains>>

(***************************************************************************)
(* PART VII  -  the chunked fetch, call by call                            *)
(*   utils/exchange_rate_fetcher.py : build_month_list, fetch_rates_chunked*)
(*       fetch_rates_for_range, get_currency_data_from_imf                 *)
(* A month is the pair <<year, month>>; the Date key of a response row is  *)
(* the number YYYYMM.  An attempt of get_currency_data_from_imf is one     *)
(* urlopen: it answers 200, answers another 2xx status (urlopen returns    *)
(* such a response, it raises for the others), or raises (timeout, HTTP    *)
(* or URL error).  last_wait is the time slept since the last urlopen.     *)
(* The files already in DATA_DIR and force are Part II's.                  *)
(***************************************************************************)
VARIABLES ck_start, ck_end, chunk_size_months, ck_step, months, chunks, ck_idx, attempt_no,
          http_calls, last_wait, xml_data, requests, responses, all_saved, ck_failed

chunkVars == <<ck_start, ck_end, chunk_size_months, ck_step, months, chunks, ck_idx,
               attempt_no, http_calls, last_wait, xml_data, requests, responses, all_saved,
               ck_failed>>

\* the ranges run from November 2023 .. January 2024 to October 2023 .. LastEndMonth 2024
LastEndMonth == 3
\* largest chunk_size_months
MaxChunkMonths == 3
\* for attempt in range(3)
ImfAttempts == 3
\* delay_between_chunks, in seconds
DelayBetweenChunks == 1

Starts == {<<2023, 11>>, <<2023, 12>>, <<2024, 1>>}
Ends == {<<2023, 10>>, <<2023, 12>>} \cup {<<2024, m>> : m \in 1..LastEndMonth}

\* build_month_list: the months from (year, month) to (end_year, end_month), inclusive
RECURSIVE build_month_list(_, _, _, _)
build_month_list(year, month, end_year, end_month) ==
    IF year < end_year \/ (year = end_year /\ month <= end_month)
    THEN <<<<year, month>>>> \o
         (IF month + 1 > 12
          THEN build_month_list(year + 1, 1, end_year, end_month)
          ELSE build_month_list(year, month + 1, end_year, end_month))
    ELSE <<>>

\* the chunks cut one month short: months[i:i + chunk_size_months - 1]
RECURSIVE build_chunks_short(_, _, _)
build_chunks_short(all_months, size, pos) ==
    IF pos >= Len(all_months)
    THEN <<>>
    ELSE LET chunk == SubSeq(all_months, pos + 1, Max(pos + 1, Min(pos + size - 1, Len(all_months))))
         IN <<<<chunk[1], chunk[Len(chunk)]>>>> \o build_chunks_short(all_months, size, pos + size)

\* for pos in range(0, len(months), chunk_size_months): (chunk_start, chunk_end) of
\* months[pos:pos + chunk_size_months]
RECURSIVE build_chunks(_, _, _)
build_chunks(all_months, size, pos) ==
    IF pos >= Len(all_months)
    THEN <<>>
    ELSE LET chunk == SubSeq(all_months, pos + 1, Min(pos + size, Len(all_months)))
         IN <<<<chunk[1], chunk[Len(chunk)]>>>> \o build_chunks(all_months, size, pos + size)

\* the Date key YYYYMM of a month, and the file exchange_rates_YYYY_MM.csv of a key:
\* date_key[:4] and date_key[4:]
DateKey(ym) == ym[1] * 100 + ym[2]
FileOf(date_key) == <<date_key \div 100, date_key % 100>>

\* 2 ** attempt
RECURSIVE Pow2(_)
Pow2(k) == IF k = 0 THEN 1 ELSE 2 * Pow2(k - 1)

ChunkInit ==
    /\ ck_start \in Starts
    /\ ck_end \in Ends
    /\ chunk_size_months \in 1..MaxChunkMonths
    /\ ck_step = "idle"
    /\ months = <<>>
    /\ chunks = <<>>
    /\ ck_idx = 0
    /\ attempt_no = 0
    /\ http_calls = 0
    /\ last_wait = 0
    /\ xml_data = "none"
    /\ requests = <<>>
    /\ responses = <<>>
    /\ all_saved = <<>>
    /\ ck_failed = <<>>

ChunkIdle ==
    /\ ChunkInit
    /\ ck_start = <<2023, 11>>
    /\ ck_end = <<2023, 10>>
    /\ chunk_size_months = 1

\* fetch_rates_chunked up to its loop: the month list and the chunks
ChunkedStart ==
    /\ ck_step = "idle"
    /\ months' = build_month_list(ck_start[1], ck_start[2], ck_end[1], ck_end[2])
    /\ IF months' = <<>>
       THEN chunks' = <<>> /\ ck_step' = "done" /\ ck_idx' = 0
       ELSE /\ chunks' = build_chunks(months', chunk_size_months, 0)
            /\ ck_step' = "range"
            /\ ck_idx' = 1
    /\ UNCHANGED <<ck_start, ck_end, chunk_size_months, attempt_no, http_calls, last_wait,
                   xml_data, requests, responses, all_saved, ck_failed>>

\* the loop body calls fetch_rates_for_range(chunk_start, chunk_end), which calls
\* get_currency_data_from_imf
RangeCall ==
    /\ ck_step = "range"
    /\ requests' = Append(requests, chunks[ck_idx])
    /\ attempt_no' = 0
    /\ xml_data' = "none"
    /\ ck_step' = "attempt"
    /\ UNCHANGED <<ck_start, ck_end, chunk_size_months, months, chunks, ck_idx, http_calls,
                   last_wait, responses, all_saved, ck_failed>>

\* get_currency_data_from_imf returned None: fetch_rates_for_range raises RuntimeError
\* and the except clause of the loop records the chunk
NoData ==
    /\ xml_data' = "None"
    /\ ck_failed' = Append(ck_failed, chunks[ck_idx])
    /\ ck_step' = "between"
    /\ UNCHANGED attempt_no

\* one attempt of get_currency_data_from_imf
HttpAttempt ==
    /\ ck_step = "attempt"
    /\ http_calls' = http_calls + 1
    /\ \/ \* HTTP 200: the body is returned
          /\ xml_data' = "body"
          /\ last_wait' = 0
          /\ ck_step' = "parse"
          /\ UNCHANGED <<attempt_no, ck_failed>>
       \/ \* another 2xx status: a warning, then the next attempt at once
          /\ last_wait' = 0
          /\ IF attempt_no + 1 < ImfAttempts
             THEN attempt_no' = attempt_no + 1 /\ UNCHANGED <<xml_data, ck_step, ck_failed>>
             ELSE NoData
       \/ \* urlopen or read raises: sleep 2 ** attempt, except after the last attempt
          /\ IF attempt_no + 1 < ImfAttempts
             THEN /\ last_wait' = Pow2(attempt_no)
                  /\ attempt_no' = attempt_no + 1
                  /\ UNCHANGED <<xml_data, ck_step, ck_failed>>
             ELSE last_wait' = 0 /\ NoData
    /\ UNCHANGED <<ck_start, ck_end, chunk_size_months, months, chunks, ck_idx, requests,
                   responses, all_saved>>

\* fetch_rates_for_range after the call: process_xml_to_dataframe (parsing and currency
\* resolution), then one CSV per Date of the response.  The response has the months of
\* the request, or lacks the last of them; an empty DataFrame is a RuntimeError.
ParseAndSave ==
    /\ ck_step = "parse"
    /\ LET asked == build_month_list(chunks[ck_idx][1][1], chunks[ck_idx][1][2],
                                     chunks[ck_idx][2][1], chunks[ck_idx][2][2])
       IN \E n \in {Len(asked) - 1, Len(asked)} :
            LET dates == {DateKey(asked[k]) : k \in 1..n}
            IN IF dates = {}
               THEN /\ ck_failed' = Append(ck_failed, chunks[ck_idx])
                    /\ UNCHANGED <<responses, all_saved>>
               ELSE /\ responses' = Append(responses, dates)
                    /\ all_saved' = all_saved \o [k \in 1..n |-> FileOf(Sorted(dates)[k])]
                    /\ UNCHANGED ck_failed
    /\ ck_step' = "between"
    /\ UNCHANGED <<ck_start, ck_end, chunk_size_months, months, chunks, ck_idx, attempt_no,
                   http_calls, last_wait, xml_data, requests>>

\* the end of the loop body: time.sleep(delay_between_chunks) unless this was the last
\* chunk, then the next chunk or the return
Between ==
    /\ ck_step = "between"
    /\ IF ck_idx < Len(chunks)
       THEN /\ last_wait' = last_wait + DelayBetweenChunks
            /\ ck_idx' = ck_idx + 1
            /\ ck_step' = "range"
       ELSE /\ ck_step' = "done"
            /\ UNCHANGED <<last_wait, ck_idx>>
    /\ UNCHANGED <<ck_start, ck_end, chunk_size_months, months, chunks, attempt_no,
                   http_calls, xml_data, requests, responses, all_saved, ck_failed>>

(***************************************************************************)
(* PART VIII  -  the lookup pool of a large batch                          *)
(*   utils/exchange_rate_fetcher.py : resolve_currency_codes,              *)
(*       _fetch_currency_from_api                                          *)
(* The pool of Part V with the lookups counted instead of named, for       *)
(* batches larger than the pool.  ThreadPoolExecutor(max_workers) runs at  *)
(* most max_workers submitted calls at a time and its with block ends when *)
(* all of them have ended.                                                 *)
(***************************************************************************)
VARIABLES
    pool_step,        \* "idle", "fetch" (inside the with block), "done" (returned)
    submitted,        \* len(futures)
    queued,           \* submitted lookups no worker has taken
    running,          \* k -> lookups in a worker that have made k attempts
    finished,         \* lookups that returned and are not collected yet
    collected,        \* iterations of the as_completed loop made
    attempts_made,    \* history: requests sent to the lookup source
    cache_writes      \* history: assignments to _currency_cache

poolVars == <<pool_step, submitted, queued, running, finished, collected, attempts_made,
              cache_writes>>

\* largest len(to_fetch)
MaxBatch == 11

InFlight == running[0] + running[1] + running[2]

PoolIdle ==
    /\ pool_step = "idle"
    /\ submitted = 0
    /\ queued = 0
    /\ running = [k \in 0..(LookupAttempts - 1) |-> 0]
    /\ finished = 0
    /\ collected = 0
    /\ attempts_made = 0
    /\ cache_writes = 0

\* mutant of FreeWorker: every submitted call gets a thread
FreeWorkerAlways(in_flight) == TRUE

\* a thread of ThreadPoolExecutor(max_workers=REST_COUNTRIES_MAX_WORKERS) is free
FreeWorker(in_flight) == in_flight < REST_COUNTRIES_MAX_WORKERS

\* if to_fetch: executor.submit(_fetch_currency_from_api, code) for code in to_fetch
PoolSubmit ==
    /\ pool_step = "idle"
    /\ \E n \in 1..MaxBatch :
         /\ submitted' = n
         /\ queued' = n
    /\ pool_step' = "fetch"
    /\ UNCHANGED <<running, finished, collected, attempts_made, cache_writes>>

\* a worker takes a submitted lookup
PoolWorkerStart ==
    /\ pool_step = "fetch"
    /\ queued > 0
    /\ FreeWorker(InFlight)
    /\ queued' = queued - 1
    /\ running' = [running EXCEPT ![0] = @ + 1]
    /\ UNCHANGED <<pool_step, submitted, finished, collected, attempts_made, cache_writes>>

\* one attempt of _fetch_currency_from_api in a worker: it returns a currency, or fails
\* and the loop goes on, to return None after the last attempt
PoolAttempt ==
    /\ pool_step = "fetch"
    /\ \E k \in DOMAIN running :
         /\ running[k] > 0
         /\ attempts_made' = attempts_made + 1
         /\ \/ /\ running' = [running EXCEPT ![k] = @ - 1]
               /\ finished' = finished + 1
            \/ IF k + 1 < LookupAttempts
               THEN /\ running' = [running EXCEPT ![k] = @ - 1, ![k + 1] = @ + 1]
                    /\ finished' = finished
               ELSE /\ running' = [running EXCEPT ![k] = @ - 1]
                    /\ finished' = finished + 1
    /\ UNCHANGED <<pool_step, submitted, queued, collected, cache_writes>>

\* one iteration of the loop over as_completed(futures), in the calling thread:
\* result[code] = currency; _currency_cache[code] = currency
PoolCollect ==
    /\ pool_step = "fetch"
    /\ finished > 0
    /\ finished' = finished - 1
    /\ collected' = collected + 1
    /\ cache_writes' = cache_writes + 1
    /\ UNCHANGED <<pool_step, submitted, queued, running, attempts_made>>

\* the loop and the with block have ended: _save_cache and return result
PoolReturn ==
    /\ pool_step = "fetch"
    /\ collected = submitted
    /\ pool_step' = "done"
    /\ UNCHANGED <<submitted, queued, running, finished, collected, attempts_made,
                   cache_writes>>

(***************************************************************************)
(* PART IX  -  the manifest builder                                        *)
(*   utils/batch_prepare.py : _latest_exchange_rate_csv,                   *)
(*       create_batch_manifest                                             *)
(*   flows/currency_acquisition_flow.py, flows/prepare_batch_flow.py       *)
(* The clock counts ticks of 1/TicksPerSecond second; a batch id is the    *)
(* clock formatted to the second.  A period dataset of DATA_DIR is its     *)
(* period number, data_mtime its modification time (0: no such file).  A   *)
(* preprocessing file is <<kind, batch id>>; its content is 0 (no such     *)
(* file), the period copied into a Forex file, or Placeholder / Merged.    *)
(* What process_batch_flow does with a manifest is Parts I and VI.         *)
(***************************************************************************)
VARIABLES
    clock,           \* datetime.now()
    data_mtime,      \* period -> st_mtime of exchange_rates_<period>.csv
    input_csvs,      \* INPUT_DIR.glob("*.csv"): file names
    pre_dir,         \* PRE_DIR: <<kind, batch id>> -> content
    hot_manifests,   \* HOT_DIR: batch id -> manifest, NotWritten if none
    mf_chain,        \* "none", "currency_acquisition_flow", "prepare_batch_flow"
    mf_pc,           \* position in the chain
    fx_path,         \* the period fetch_last_month_rates returned, 0 before
    fx_validated,    \* the period validate_exchange_rate_data passed, 0 if none
    mf_batch_id,     \* batch_id of the running create_batch_manifest call
    source_forex,    \* source_forex of the running call
    mf_raised,       \* the exception that ended the last call, "none" if none
    issued,          \* history: the batch ids of the calls that got past the forex lookup
    overwritten      \* history: files of an earlier call a later call wrote over

manifestVars == <<clock, data_mtime, input_csvs, pre_dir, hot_manifests, mf_chain, mf_pc,
                  fx_path, fx_validated, mf_batch_id, source_forex, mf_raised, issued,
                  overwritten>>

\* the clock stops at MaxClock ticks
MaxClock == 5
TicksPerSecond == 2
\* create_batch_manifest calls of one behaviour
MaxManifestCalls == 2

DataPeriods == {1, 2}
\* last_month_api_str()
LastMonth == 2
InputNames == {"partner_a.csv", "units.csv"}
PreKinds == {"Forex", "Partner_Data", "Merged_Units"}
BatchIds == 0..(MaxClock \div TicksPerSecond)
Placeholder == 1
Merged == 2
NotWritten ==
    [status |-> "none", source_forex_file |-> 0,
     files |-> [partners |-> <<"-", 0>>, units |-> <<"-", 0>>, forex |-> <<"-", 0>>]]

\* datetime.now().strftime("%Y%m%d%H%M%S")
FormatBatchId(now) == now \div TicksPerSecond

\* "partner" in f.name.lower() and "unit" in f.name.lower()
PartnerFiles(csvs) == csvs \cap {"partner_a.csv"}
UnitsFiles(csvs) == csvs \cap {"units.csv"}

\* _latest_exchange_rate_csv: the candidates no other candidate is newer than (the sort
\* keeps the glob order among equal times); none when DATA_DIR has no period dataset
LatestExchangeRateCsv(mtime) ==
    {p \in DataPeriods : mtime[p] > 0 /\ \A o \in DataPeriods : mtime[o] <= mtime[p]}

\* mutant of AuxContent: nothing is written when no input of the kind exists
AuxContentNoPlaceholder(found) == IF found # {} THEN Merged ELSE 0

\* the partner or units file of a batch: the inputs of its kind merged, or a placeholder
AuxContent(found) == IF found # {} THEN Merged ELSE Placeholder

ManifestInit ==
    /\ clock = TicksPerSecond
    /\ data_mtime \in [DataPeriods -> 0..TicksPerSecond]
    /\ input_csvs \in SUBSET InputNames
    /\ pre_dir = [f \in PreKinds \X BatchIds |-> 0]
    /\ hot_manifests = [b \in BatchIds |-> NotWritten]
    /\ mf_chain = "none"
    /\ mf_pc = "idle"
    /\ fx_path = 0
    /\ fx_validated = 0
    /\ mf_batch_id = 0
    /\ source_forex = 0
    /\ mf_raised = "none"
    /\ issued = <<>>
    /\ overwritten = {}

ManifestIdle ==
    /\ ManifestInit
    /\ data_mtime = [p \in DataPeriods |-> 0]
    /\ input_csvs = {}

\* time passes
Tick ==
    /\ clock < MaxClock
    /\ clock' = clock + 1
    /\ UNCHANGED <<data_mtime, input_csvs, pre_dir, hot_manifests, mf_chain, mf_pc, fx_path,
                   fx_validated, mf_batch_id, source_forex, mf_raised, issued, overwritten>>

\* a flow ends: its locals are gone
ChainEnds(e) ==
    /\ mf_chain' = "none"
    /\ mf_pc' = "idle"
    /\ mf_raised' = e
    /\ fx_path' = 0
    /\ fx_validated' = 0
    /\ mf_batch_id' = 0
    /\ source_forex' = 0

\* currency_acquisition_flow, step 1: fetch_last_month_rates returns the path of last
\* month's dataset, which it writes unless the file exists; or it raises
AcquisitionFetch ==
    /\ mf_pc = "idle"
    /\ Len(issued) < MaxManifestCalls
    /\ \/ /\ data_mtime' = IF data_mtime[LastMonth] = 0
                           THEN [data_mtime EXCEPT ![LastMonth] = clock]
                           ELSE data_mtime
          /\ mf_chain' = "currency_acquisition_flow"
          /\ mf_pc' = "validate"
          /\ fx_path' = LastMonth
          /\ mf_raised' = "none"
          /\ UNCHANGED <<fx_validated, mf_batch_id, source_forex>>
       \/ /\ data_mtime[LastMonth] = 0
          /\ ChainEnds("RuntimeError")
          /\ UNCHANGED data_mtime
    /\ UNCHANGED <<clock, input_csvs, pre_dir, hot_manifests, issued, overwritten>>

\* currency_acquisition_flow, step 2: validate_exchange_rate_data(fx_path,
\* fail_on_issues=True) returns the report of a PASS or raises
AcquisitionValidate ==
    /\ mf_pc = "validate"
    /\ \/ /\ fx_validated' = fx_path
          /\ mf_pc' = "create"
          /\ UNCHANGED <<mf_chain, fx_path, mf_batch_id, source_forex, mf_raised>>
       \/ ChainEnds("ValueError")
    /\ UNCHANGED <<clock, data_mtime, input_csvs, pre_dir, hot_manifests, issued,
                   overwritten>>

\* prepare_batch_flow is run by hand, by its deployment or by complete_batch_pipeline
PrepareStart ==
    /\ mf_pc = "idle"
    /\ Len(issued) < MaxManifestCalls
    /\ mf_chain' = "prepare_batch_flow"
    /\ mf_pc' = "create"
    /\ mf_raised' = "none"
    /\ UNCHANGED <<clock, data_mtime, input_csvs, pre_dir, hot_manifests, fx_path,
                   fx_validated, mf_batch_id, source_forex, issued, overwritten>>

\* create_batch_manifest up to the forex lookup: batch_id, source_forex
LocateForex ==
    /\ mf_pc = "create"
    /\ IF LatestExchangeRateCsv(data_mtime) = {}
       THEN /\ ChainEnds("FileNotFoundError")
            /\ UNCHANGED issued
       ELSE /\ \E p \in LatestExchangeRateCsv(data_mtime) : source_forex' = p
            /\ mf_batch_id' = FormatBatchId(clock)
            /\ issued' = Append(issued, FormatBatchId(clock))
            /\ mf_pc' = "forex"
            /\ UNCHANGED <<mf_chain, fx_path, fx_validated, mf_raised>>
    /\ UNCHANGED <<clock, data_mtime, input_csvs, pre_dir, hot_manifests, overwritten>>

\* writing a preprocessing file of the batch, or the exception of the write
WritePre(kind, content, next) ==
    \/ /\ pre_dir' = [pre_dir EXCEPT ![<<kind, mf_batch_id>>] = content]
       /\ overwritten' = IF pre_dir[<<kind, mf_batch_id>>] # 0
                         THEN overwritten \cup {<<kind, mf_batch_id>>}
                         ELSE overwritten
       /\ mf_pc' = next
       /\ UNCHANGED <<mf_chain, fx_path, fx_validated, mf_batch_id, source_forex, mf_raised>>
    \/ /\ ChainEnds("OSError")
       /\ UNCHANGED <<pre_dir, overwritten>>

\* shutil.copy2(source_forex, PRE_DIR / Forex_<batch_id>.csv)
CopyForex ==
    /\ mf_pc = "forex"
    /\ WritePre("Forex", source_forex, "partners")
    /\ UNCHANGED <<clock, data_mtime, input_csvs, hot_manifests, issued>>

\* the partner files of 1_input merged into Partner_Data_<batch_id>.csv, or the placeholder
MergePartners ==
    /\ mf_pc = "partners"
    /\ WritePre("Partner_Data", AuxContent(PartnerFiles(input_csvs)), "units")
    /\ UNCHANGED <<clock, data_mtime, input_csvs, hot_manifests, issued>>

\* the units files of 1_input merged into Merged_Units_<batch_id>.csv, or the placeholder
MergeUnits ==
    /\ mf_pc = "units"
    /\ WritePre("Merged_Units", AuxContent(UnitsFiles(input_csvs)), "manifest")
    /\ UNCHANGED <<clock, data_mtime, input_csvs, hot_manifests, issued>>

\* the manifest is built and written to HOT_DIR / <batch_id>_MANIFEST.json, and its path
\* returned to the flow, which hands it to process_batch_flow
WriteManifest ==
    /\ mf_pc = "manifest"
    /\ \/ /\ hot_manifests' =
               [hot_manifests EXCEPT ![mf_batch_id] =
                   [status |-> "READY_FOR_PROCESSING",
                    source_forex_file |-> source_forex,
                    files |-> [partners |-> <<"Partner_Data", mf_batch_id>>,
                               units |-> <<"Merged_Units", mf_batch_id>>,
                               forex |-> <<"Forex", mf_batch_id>>]]]
          /\ overwritten' = IF hot_manifests[mf_batch_id] # NotWritten
                            THEN overwritten \cup {<<"MANIFEST", mf_batch_id>>}
                            ELSE overwritten
          /\ ChainEnds("none")
       \/ /\ ChainEnds("OSError")
          /\ UNCHANGED <<hot_manifests, overwritten>>
    /\ UNCHANGED <<clock, data_mtime, input_csvs, pre_dir, issued>>

(***************************************************************************)
(* PART X  -  the hot-folder watcher                                       *)
(*   watcher/local_file_event_watcher.py : watcher                         *)
(* A file name is <<stem, suffix>>.  The manifests of the folder are       *)
(* written by the manifest builder and removed by the batch processor      *)
(* while the watcher runs; emit_event is a call into the Prefect client,   *)
(* which sends the event or raises.                                        *)
(***************************************************************************)
VARIABLES
    watch_folder,   \* the file names in HOT_DIR
    seen,           \* seen
    listing,        \* the names of os.listdir the for loop has not visited yet
    polled,         \* history: the manifest names some os.listdir returned
    w_pc,           \* "sleep" or "loop"
    emitted         \* history: file name -> local.manifest.created events emitted for it

watcherVars == <<watch_folder, seen, listing, polled, w_pc, emitted>>

\* batch ids of the manifests that can arrive
MaxWatched == 2

WatchedNames ==
    {<<b, "_MANIFEST.json">> : b \in 1..MaxWatched} \cup {<<1, "_success.log">>}

\* filename.endswith("_MANIFEST.json")
IsManifestName(filename) == filename[2] = "_MANIFEST.json"

WatcherInit ==
    /\ watch_folder \in SUBSET WatchedNames
    /\ seen = {}
    /\ listing = {}
    /\ polled = {}
    /\ w_pc = "sleep"
    /\ emitted = [f \in WatchedNames |-> 0]

WatcherIdle ==
    /\ WatcherInit
    /\ watch_folder = {}

\* a file is written into the hot folder
FileArrives ==
    /\ \E f \in WatchedNames \ watch_folder : watch_folder' = watch_folder \cup {f}
    /\ UNCHANGED <<seen, listing, polled, w_pc, emitted>>

\* a file of the hot folder is removed
FileRemoved ==
    /\ \E f \in watch_folder : watch_folder' = watch_folder \ {f}
    /\ UNCHANGED <<seen, listing, polled, w_pc, emitted>>

\* time.sleep(interval) has ended: os.listdir(watch_folder)
Poll ==
    /\ w_pc = "sleep"
    /\ listing' = watch_folder
    /\ polled' = polled \cup {f \in watch_folder : IsManifestName(f)}
    /\ w_pc' = "loop"
    /\ UNCHANGED <<watch_folder, seen, emitted>>

\* one iteration of the for loop; an exception of emit_event ends the loop in the
\* except clause
Visit ==
    /\ w_pc = "loop"
    /\ listing # {}
    /\ \E filename \in listing :
         IF IsManifestName(filename) /\ filename \notin seen
         THEN /\ seen' = seen \cup {filename}
              /\ \/ /\ emitted' = [emitted EXCEPT ![filename] = @ + 1]
                    /\ listing' = listing \ {filename}
                    /\ w_pc' = "loop"
                 \/ /\ emitted' = emitted
                    /\ listing' = {}
                    /\ w_pc' = "sleep"
         ELSE /\ listing' = listing \ {filename}
              /\ UNCHANGED <<seen, emitted, w_pc>>
    /\ UNCHANGED <<watch_folder, polled>>

\* the for loop has ended: time.sleep(interval)
Sleep ==
    /\ w_pc = "loop"
    /\ listing = {}
    /\ w_pc' = "sleep"
    /\ UNCHANGED <<watch_folder, seen, listing, polled, emitted>>

(***************************************************************************)
(* PART XI  -  the completeness-aware script against a settled source      *)
(*   fetch_historical_rates_fixed.py                                       *)
(* The script of Part II when the IMF API answers every request, and       *)
(* always with the same country set for a period, and the files of         *)
(* DATA_DIR can be written.                                                *)
(***************************************************************************)
VARIABLES
    imf_source      \* period -> the country set the IMF API answers with

settledVars == <<imf_source>>

SettledIdle == imf_source = [p \in Periods |-> 1..(SanityFloor + 1)]

\* one iteration of the month loop: a request is answered with the country set of the
\* source, and an answer that passes the sanity check is saved
SettledMonth ==
    /\ ScriptMonth
    /\ (called' # called) =>
           /\ fetched' = <<cur, imf_source[cur]>>
           /\ Reasonable(imf_source[cur]) =>
                  /\ csv'[cur] = Present(imf_source[cur])
                  /\ current_run_countries'[cur] = Present(imf_source[cur])

(***************************************************************************)
(* PART XII  -  the result of the chunked fetch                            *)
(*   utils/exchange_rate_fetcher.py : fetch_rates_chunked                  *)
(* The backfill of Part II with the months whose existing dataset          *)
(* fetch_rates_for_range kept, and the dictionary that fetch_rates_chunked *)
(* returns at the end of the loop over the chunks.                         *)
(***************************************************************************)
VARIABLES
    kept            \* history: the months of this run whose existing dataset was kept

keptVars == <<kept>>

KeptIdle == kept = {}

\* all_saved = [], failed_chunks = [], skipped = 0 ... return {"saved_files": all_saved,
\* "skipped": skipped, "failed_chunks": failed_chunks, "total_months": len(months)}:
\* nothing between the assignment of skipped and the return assigns it again
ChunkedResult ==
    [saved_files |-> saved_files,
     skipped |-> 0,
     failed_chunks |-> failed_chunks,
     total_months |-> Cardinality(Periods)]

\* fetch_rates_chunked is entered
KeptStart ==
    /\ BackfillStart
    /\ kept' = {}

\* the IMF call of a chunk
KeptChunkFetch ==
    /\ ChunkFetch
    /\ UNCHANGED kept

\* one month of fetch_rates_for_range: "Skip: already exists" keeps the dataset
KeptSaveMonth ==
    /\ RangeSaveMonth
    /\ kept' = IF /\ csv[month_pos] # Absent
                  /\ ~force
                  /\ \/ chunk_saved' = Append(chunk_saved, month_pos)
                     \/ saved_files' = saved_files \o Append(chunk_saved, month_pos)
               THEN kept \cup {month_pos}
               ELSE kept

\* the tracker update of the flow, after fetch_rates_chunked has returned
KeptUpdateTracker ==
    /\ UpdateTracker
    /\ UNCHANGED kept

(***************************************************************************)
(* Specifications                                                          *)
(***************************************************************************)
vars == <<batchVars, acqVars, valVars, cvVars, resVars, flowVars, chunkVars, poolVars,
         manifestVars, watcherVars, settledVars, keptVars>>

\* what the actions of one part leave unchanged
notBatch == <<acqVars, valVars, cvVars, resVars, flowVars, chunkVars,
    poolVars, manifestVars,
    watcherVars, settledVars, keptVars>>
notAcq == <<batchVars, valVars, cvVars, resVars, flowVars, chunkVars,
    poolVars, manifestVars,
    watcherVars, settledVars, keptVars>>
notVal == <<batchVars, acqVars, cvVars, resVars, flowVars, chunkVars,
    poolVars, manifestVars,
    watcherVars, settledVars, keptVars>>
notCv == <<batchVars, acqVars, valVars, resVars, flowVars, chunkVars,
    poolVars, manifestVars,
    watcherVars, settledVars, keptVars>>
notRes == <<batchVars, acqVars, valVars, cvVars, flowVars, chunkVars,
    poolVars, manifestVars,
    watcherVars, settledVars, keptVars>>
notFlow == <<batchVars, acqVars, valVars, cvVars, resVars, chunkVars, poolVars, manifestVars,
    watcherVars, settledVars, keptVars>>
notChunk == <<batchVars, acqVars, valVars, cvVars, resVars, flowVars, poolVars, manifestVars,
    watcherVars, settledVars, keptVars>>
notPool == <<batchVars, acqVars, valVars, cvVars, resVars, flowVars, chunkVars, manifestVars,
    watcherVars, settledVars, keptVars>>
notManifest == <<batchVars, acqVars, valVars, cvVars, resVars, flowVars, chunkVars, poolVars,
    watcherVars, settledVars, keptVars>>
\* the backfill with the history of the kept months
notAcqKept == <<batchVars, valVars, cvVars, resVars, flowVars, chunkVars,
    poolVars, manifestVars,
    watcherVars, settledVars>>
notWatcher == <<batchVars, acqVars, valVars, cvVars, resVars, flowVars, chunkVars, poolVars,
    manifestVars, settledVars, keptVars>>

Init == BatchInit /\ AcqInit /\ ValIdle /\ CvIdle /\ ResIdle /\ FlowIdle /\ ChunkIdle /\ PoolIdle /\ ManifestIdle /\ WatcherIdle /\ SettledIdle /\ KeptIdle
Next ==
    \/ Call /\ UNCHANGED notBatch
    \/ Transform /\ UNCHANGED notBatch
    \/ WriteOutput /\ UNCHANGED notBatch
    \/ ArchiveCopy /\ UNCHANGED notBatch
    \/ RemoveOriginal /\ UNCHANGED notBatch
    \/ SuccessLog /\ UNCHANGED notBatch
    \/ QuarantineCopy /\ UNCHANGED notBatch
    \/ ErrorLogAndRaise /\ UNCHANGED notBatch
Spec == Init /\ [][Next]_vars

\* the batch part at rest: one manifest, nothing processed
BatchIdle ==
    /\ BatchInit
    /\ manifest = [files |-> [partners |-> <<"2_preprocessing", "a.csv">>,
                              units |-> <<"2_preprocessing", "b.csv">>,
                              forex |-> <<"2_preprocessing", "a.csv">>],
                   raw_data |-> <<>>]
    /\ disk = {ManifestFile}

AcqInitAll == BatchIdle /\ AcqInit /\ ValIdle /\ CvIdle /\ ResIdle /\ FlowIdle /\ ChunkIdle /\ PoolIdle /\ ManifestIdle /\ WatcherIdle /\ SettledIdle /\ KeptIdle
AcqNextAll ==
    \/ FetchRatesForMonth /\ UNCHANGED notAcq
    \/ ScriptStart /\ UNCHANGED notAcq
    \/ ScriptMonth /\ UNCHANGED notAcq
    \/ ScriptSaveTracker /\ UNCHANGED notAcq
    \/ BackfillStart /\ UNCHANGED notAcq
    \/ ChunkFetch /\ UNCHANGED notAcq
    \/ RangeSaveMonth /\ UNCHANGED notAcq
    \/ UpdateTracker /\ UNCHANGED notAcq
AcqSpec == AcqInitAll /\ [][AcqNextAll]_vars

\* the country sets a tracker entry can hold: those of a dataset and their unions
TrackerSets == {a \cup b : a \in Responses, b \in Responses}
Datasets == {Absent} \cup {Present(c) : c \in Responses}
TrackerEntries ==
    {Absent} \cup {Present([countries |-> c, count |-> Cardinality(c)]) : c \in TrackerSets}

\* the completeness-aware script alone, started on any data directory the
\* acquisition programs can leave behind (datasets and tracker entries)
ScriptInit ==
    /\ BatchIdle
    /\ ValIdle
    /\ CvIdle /\ ResIdle /\ FlowIdle /\ ChunkIdle /\ PoolIdle /\ ManifestIdle /\ WatcherIdle /\ SettledIdle /\ KeptIdle
    /\ csv \in [Periods -> Datasets]
    /\ tracker_file \in [Periods -> TrackerEntries]
    /\ bak = NoPeriod
    /\ run = "none"
    /\ step = "idle"
    /\ force = FALSE
    /\ chunk_size = 1
    /\ cur = 1
    /\ month_pos = 1
    /\ country_presence = NoPeriod
    /\ current_run_countries = NoPeriod
    /\ suspicious_months = {}
    /\ chunk_saved = <<>>
    /\ saved_files = <<>>
    /\ failed_chunks = <<>>
    /\ result = "none"
    /\ called = {}
    /\ fetched = Absent
ScriptNext ==
    \/ ScriptStart /\ UNCHANGED notAcq
    \/ ScriptMonth /\ UNCHANGED notAcq
    \/ ScriptSaveTracker /\ UNCHANGED notAcq
ScriptSpec == ScriptInit /\ [][ScriptNext]_vars

\* the script run again and again against a settled source, from an empty data
\* directory or from any the acquisition programs can leave behind
SettledInit ==
    /\ BatchIdle
    /\ ValIdle
    /\ CvIdle /\ ResIdle /\ FlowIdle /\ ChunkIdle /\ PoolIdle /\ ManifestIdle /\ WatcherIdle /\ KeptIdle
    /\ imf_source \in [Periods -> Responses]
    /\ csv \in [Periods -> Datasets]
    /\ tracker_file \in [Periods -> TrackerEntries]
    /\ bak = NoPeriod
    /\ run = "none"
    /\ step = "idle"
    /\ force = FALSE
    /\ chunk_size = 1
    /\ cur = 1
    /\ month_pos = 1
    /\ country_presence = NoPeriod
    /\ current_run_countries = NoPeriod
    /\ suspicious_months = {}
    /\ chunk_saved = <<>>
    /\ saved_files = <<>>
    /\ failed_chunks = <<>>
    /\ result = "none"
    /\ called = {}
    /\ fetched = Absent
SettledNext ==
    \/ ScriptStart /\ UNCHANGED notAcq
    \/ SettledMonth /\ UNCHANGED notAcq
    \/ ScriptSaveTracker /\ UNCHANGED notAcq
SettledSpec == SettledInit /\ [][SettledNext]_vars /\ WF_vars(SettledNext)

\* the chunked backfill alone, run after run, from an empty data directory
BackfillInit ==
    /\ BatchIdle
    /\ ValIdle
    /\ CvIdle /\ ResIdle /\ FlowIdle /\ ChunkIdle /\ PoolIdle /\ ManifestIdle /\ WatcherIdle /\ SettledIdle /\ KeptIdle
    /\ AcqInit
BackfillNext ==
    \/ BackfillStart /\ UNCHANGED notAcq
    \/ ChunkFetch /\ UNCHANGED notAcq
    \/ RangeSaveMonth /\ UNCHANGED notAcq
    \/ UpdateTracker /\ UNCHANGED notAcq
BackfillSpec == BackfillInit /\ [][BackfillNext]_vars

\* the two fetchers of utils/exchange_rate_fetcher.py, call after call, from an empty
\* data directory: single months, and the ranges of the chunked backfill
FetchInit == BackfillInit
FetchNext ==
    \/ FetchRatesForMonth /\ UNCHANGED notAcq
    \/ BackfillStart /\ UNCHANGED notAcq
    \/ ChunkFetch /\ UNCHANGED notAcq
    \/ RangeSaveMonth /\ UNCHANGED notAcq
    \/ UpdateTracker /\ UNCHANGED notAcq
FetchSpec == FetchInit /\ [][FetchNext]_vars

\* the chunked backfill run after run, from an empty data directory, with the months
\* that were kept
KeptInit == BackfillInit
KeptNext ==
    \/ KeptStart /\ UNCHANGED notAcqKept
    \/ KeptChunkFetch /\ UNCHANGED notAcqKept
    \/ KeptSaveMonth /\ UNCHANGED notAcqKept
    \/ KeptUpdateTracker /\ UNCHANGED notAcqKept
KeptSpec == KeptInit /\ [][KeptNext]_vars

\* build_report on any dataset file and any answer of the live source
ValInitAll == BatchIdle /\ AcqInit /\ ValInit /\ CvIdle /\ ResIdle /\ FlowIdle /\ ChunkIdle /\ PoolIdle /\ ManifestIdle /\ WatcherIdle /\ SettledIdle /\ KeptIdle
ValNext ==
    \/ BuildReport /\ UNCHANGED notVal
ValSpec == ValInitAll /\ [][ValNext]_vars

\* build_report on the tables whose rates are positive numbers and whose currencies are
\* a code or empty: the datasets that differ in countries, dates, duplicates and coverage
LightRows ==
    {r \in Rows : /\ r.Currency \in {NaN, <<"USD">>}
                  /\ r.Exchange_Rate \in {<<OneRate>>, <<MAX_REASONABLE_RATE + 1>>}}
LightTables == UNION {[1..n -> LightRows] : n \in 0..MaxRows}
ValLightInit ==
    /\ BatchIdle
    /\ AcqInit
    /\ CvIdle /\ ResIdle /\ FlowIdle /\ ChunkIdle /\ PoolIdle /\ ManifestIdle /\ WatcherIdle /\ SettledIdle /\ KeptIdle
    /\ dataset \in {Present([columns |-> Required, rows |-> t]) : t \in LightTables}
    /\ prev_dataset = Absent
    /\ imf_countries \in SUBSET LiveCountries
    /\ include_rate_check \in BOOLEAN
    /\ imf_rates \in IF include_rate_check THEN LiveRateTables ELSE {<<>>}
    /\ rates_fetched = FALSE
    /\ val_result = "none"
    /\ report = Absent
    /\ TaskIdle
ValLightSpec == ValLightInit /\ [][ValNext]_vars

\* build_report on the datasets that differ in their rates: NaN, -5.0, 0, 0.00005, and
\* the rates on both sides of the tolerance around a live value of 1000.0 (998.99995,
\* 999.0, 1000.0, 1001.0, 1001.00005).  999.0, 1000.0 and 1001.0 are exact as floats,
\* so that the float comparison of the code is the comparison of these numbers.
ThousandRate == 1000 * OneRate
RateRows ==
    [Country : Countries, Currency : {<<"USD">>}, Date : {ExpectedYm},
     Exchange_Rate : {NaN, <<0 - 5 * OneRate>>, <<0>>, <<MIN_REASONABLE_RATE - 1>>,
                      <<ThousandRate - OneRate - 1>>, <<ThousandRate - OneRate>>,
                      <<ThousandRate>>, <<ThousandRate + OneRate>>,
                      <<ThousandRate + OneRate + 1>>}]
RateLiveTables == UNION {[d -> {0, ThousandRate}] : d \in SUBSET Countries}
ValRateInit ==
    /\ BatchIdle
    /\ AcqInit
    /\ CvIdle /\ ResIdle /\ FlowIdle /\ ChunkIdle /\ PoolIdle /\ ManifestIdle /\ WatcherIdle /\ SettledIdle /\ KeptIdle
    /\ dataset \in {Present([columns |-> Required, rows |-> t]) :
                       t \in UNION {[1..n -> RateRows] : n \in 0..MaxRows}}
    /\ prev_dataset = Absent
    /\ imf_countries \in {{}, Countries}
    /\ include_rate_check \in BOOLEAN
    /\ imf_rates \in IF include_rate_check THEN RateLiveTables ELSE {<<>>}
    /\ rates_fetched = FALSE
    /\ val_result = "none"
    /\ report = Absent
    /\ TaskIdle
ValRateSpec == ValRateInit /\ [][ValNext]_vars

\* validate_exchange_rate_data and build_report on the datasets of one to MaxRows rows
\* that differ in country and date, on a missing file and on files that lack a column
TaskRows ==
    {r \in Rows : r.Currency = <<"USD">> /\ r.Exchange_Rate = <<OneRate>>}
TaskFiles ==
    {Absent}
    \cup {Present([columns |-> Required, rows |-> t]) :
             t \in UNION {[1..n -> TaskRows] : n \in 0..MaxRows}}
    \cup {Present([columns |-> Required \ {c}, rows |-> <<>>]) : c \in {"Currency", "Base_Currency"}}
TaskInit ==
    /\ BatchIdle
    /\ AcqInit
    /\ CvIdle /\ ResIdle /\ FlowIdle /\ ChunkIdle /\ PoolIdle /\ ManifestIdle /\ WatcherIdle /\ SettledIdle /\ KeptIdle
    /\ dataset \in TaskFiles
    /\ prev_dataset \in PrevFiles
    /\ imf_countries = {}
    /\ include_rate_check \in BOOLEAN
    /\ imf_rates = <<>>
    /\ rates_fetched = FALSE
    /\ val_result = "none"
    /\ report = Absent
    /\ prefect \in BOOLEAN
    /\ fail_on_issues \in BOOLEAN
    /\ task_result = "none"
    /\ task_try = 0
    /\ saved = <<>>
TaskNext ==
    \/ ValidateTask /\ UNCHANGED notVal
TaskSpec == TaskInit /\ [][TaskNext]_vars

\* cross_validate_historical on any set of stored months
CvInitAll == BatchIdle /\ AcqInit /\ ValIdle /\ CvInit /\ ResIdle /\ FlowIdle /\ ChunkIdle /\ PoolIdle /\ ManifestIdle /\ WatcherIdle /\ SettledIdle /\ KeptIdle
CvNext ==
    \/ CvStart /\ UNCHANGED notCv
    \/ CvMonth /\ UNCHANGED notCv
    \/ CvFinish /\ UNCHANGED notCv
CvSpec == CvInitAll /\ [][CvNext]_vars

\* the resolver over calls and process restarts, from any cache file
ResInitAll == BatchIdle /\ AcqInit /\ ValIdle /\ CvIdle /\ ResInit /\ FlowIdle /\ ChunkIdle /\ PoolIdle /\ ManifestIdle /\ WatcherIdle /\ SettledIdle /\ KeptIdle
ResNext ==
    \/ Resolve /\ UNCHANGED notRes
    \/ WorkerStart /\ UNCHANGED notRes
    \/ LookupAttempt /\ UNCHANGED notRes
    \/ Collect /\ UNCHANGED notRes
    \/ SaveAndReturn /\ UNCHANGED notRes
    \/ Reload /\ UNCHANGED notRes
ResSpec == ResInitAll /\ [][ResNext]_vars

\* the flows, chain after chain, from any hot folder earlier runs can leave behind
FlowInitAll == BatchIdle /\ AcqInit /\ ValIdle /\ CvIdle /\ ResIdle /\ FlowInit /\ ChunkIdle /\ PoolIdle /\ ManifestIdle /\ WatcherIdle /\ SettledIdle /\ KeptIdle
FlowNext ==
    \/ StartChain /\ UNCHANGED notFlow
    \/ CreateBatchManifest /\ UNCHANGED notFlow
    \/ ProcessBatchFlow /\ UNCHANGED notFlow
FlowSpec == FlowInitAll /\ [][FlowNext]_vars

\* fetch_rates_chunked on any range and chunk size, its calls one by one
ChunkInitAll ==
    /\ BatchIdle /\ AcqInit /\ ValIdle /\ CvIdle /\ ResIdle /\ FlowIdle /\ ChunkInit
    /\ PoolIdle /\ ManifestIdle /\ WatcherIdle /\ SettledIdle /\ KeptIdle
ChunkNext ==
    \/ ChunkedStart /\ UNCHANGED notChunk
    \/ RangeCall /\ UNCHANGED notChunk
    \/ HttpAttempt /\ UNCHANGED notChunk
    \/ ParseAndSave /\ UNCHANGED notChunk
    \/ Between /\ UNCHANGED notChunk
ChunkSpec == ChunkInitAll /\ [][ChunkNext]_vars

\* one resolve_currency_codes call with up to MaxBatch codes to look up
PoolInitAll ==
    /\ BatchIdle /\ AcqInit /\ ValIdle /\ CvIdle /\ ResIdle /\ FlowIdle /\ ChunkIdle
    /\ PoolIdle /\ ManifestIdle /\ WatcherIdle /\ SettledIdle /\ KeptIdle
PoolNext ==
    \/ PoolSubmit /\ UNCHANGED notPool
    \/ PoolWorkerStart /\ UNCHANGED notPool
    \/ PoolAttempt /\ UNCHANGED notPool
    \/ PoolCollect /\ UNCHANGED notPool
    \/ PoolReturn /\ UNCHANGED notPool
PoolSpec == PoolInitAll /\ [][PoolNext]_vars

\* the flows that build manifests, from any DATA_DIR and 1_input earlier runs can leave
ManifestInitAll ==
    /\ BatchIdle /\ AcqInit /\ ValIdle /\ CvIdle /\ ResIdle /\ FlowIdle /\ ChunkIdle
    /\ PoolIdle /\ ManifestInit /\ WatcherIdle /\ SettledIdle /\ KeptIdle
ManifestNext ==
    \/ Tick /\ UNCHANGED notManifest
    \/ AcquisitionFetch /\ UNCHANGED notManifest
    \/ AcquisitionValidate /\ UNCHANGED notManifest
    \/ PrepareStart /\ UNCHANGED notManifest
    \/ LocateForex /\ UNCHANGED notManifest
    \/ CopyForex /\ UNCHANGED notManifest
    \/ MergePartners /\ UNCHANGED notManifest
    \/ MergeUnits /\ UNCHANGED notManifest
    \/ WriteManifest /\ UNCHANGED notManifest
ManifestSpec == ManifestInitAll /\ [][ManifestNext]_vars

\* the watcher beside a hot folder whose files come and go
WatcherInitAll ==
    /\ BatchIdle /\ AcqInit /\ ValIdle /\ CvIdle /\ ResIdle /\ FlowIdle /\ ChunkIdle
    /\ PoolIdle /\ ManifestIdle /\ WatcherInit /\ SettledIdle /\ KeptIdle
WatcherNext ==
    \/ FileArrives /\ UNCHANGED notWatcher
    \/ FileRemoved /\ UNCHANGED notWatcher
    \/ Poll /\ UNCHANGED notWatcher
    \/ Visit /\ UNCHANGED notWatcher
    \/ Sleep /\ UNCHANGED notWatcher
WatcherSpec == WatcherInitAll /\ [][WatcherNext]_vars
\* the watcher process keeps running: its while loop takes every step it can take
WatcherFairSpec ==
    /\ WatcherSpec
    /\ WF_vars(Poll /\ UNCHANGED notWatcher)
    /\ WF_vars(Visit /\ UNCHANGED notWatcher)
    /\ WF_vars(Sleep /\ UNCHANGED notWatcher)

(***************************************************************************)
(* CLAIMS                                                                  *)
(***************************************************************************)

\* the files of the manifest that existed when the current call began
ReferencedAtCall == Referenced(manifest) \cap disk_at_call

\* C1: after run_core_processing has returned normally, no manifest-referenced file
\* (of those that existed when the call began) remains at its original path, and a
\* file of its name is in the batch archive folder, next to the processed output.
C1_ReturnedMeansArchivedAndRemoved ==
    outcome = "returned" =>
        /\ output
        /\ \A f \in ReferencedAtCall :
              f \notin disk /\ archive[Basename(f)] # NoFile

\* C2: after run_core_processing has raised the exception of a failed step, every
\* manifest-referenced file (of those that existed when the call began) is still at
\* its original path and has a copy in the quarantine folder. Stated for the calls
\* whose except branch ran to its end, the case most favourable to the claim.
C2_RaisedMeansOriginalsAndQuarantine ==
    (outcome = "raised" /\ exc # "none" /\ raised = exc) =>
        \A f \in ReferencedAtCall :
            f \in disk /\ error_folder[Basename(f)] # NoFile

\* C3: at every state of every call, interrupted or not, the content of each
\* manifest-referenced file (of those that existed before the first call) is at
\* its original path or in the batch archive.
C3_ContentAtOriginalOrInArchive ==
    \A f \in Referenced(manifest) \cap disk_first :
        f \in disk \/ \E n \in AllNames : archive[n] = f

\* C4: whenever a step of the try block raised, the exception that reaches the
\* caller is that exception, and by then the quarantine folder holds a copy of every
\* referenced file that exists and the failure record of this call is written.
C4_OriginalExceptionAfterQuarantine ==
    (outcome = "raised" /\ exc # "none") =>
        /\ raised = exc
        /\ error_log = [call |-> calls, error |-> exc]
        /\ \A f \in Referenced(manifest) \cap disk :
              error_folder[Basename(f)] # NoFile

\* C5: a run without force (fetch_rates_for_month, or the chunked backfill through
\* fetch_rates_for_range) that finds the dataset of every period already persisted
\* changes no dataset and sends no request to the IMF API.
C5_NoCallWhenAllPersisted ==
    [][(run' \in {"month", "backfill"} /\ ~force' /\ \A p \in Periods : csv[p] # Absent)
          => (csv' = csv /\ called' = {})]_vars

\* C6: no step of the script or of the backfill flow shrinks the country set the
\* tracker file records for a period.
C6_LedgerNeverShrinks ==
    [][\A p \in Periods :
          tracker_file[p] # Absent =>
              /\ tracker_file'[p] # Absent
              /\ tracker_file[p][1].countries \subseteq tracker_file'[p][1].countries]_vars

\* C8: in the completeness-aware script, a freshly fetched month whose country count
\* is below the floor is persisted as the month's dataset and listed as suspicious.
C8_BelowFloorSavedAndFlagged ==
    (run = "script" /\ fetched # Absent /\ Cardinality(fetched[2]) < SanityFloor) =>
        /\ csv[fetched[1]] = Present(fetched[2])
        /\ fetched[1] \in suspicious_months

\* C9: for a month whose dataset exists, an iteration of the script skips it without a
\* request exactly when the month has no tracker entry or the dataset holds every
\* country of the entry, and sends a request exactly when a tracked country is missing.
C9_SkipExactlyWhenComplete ==
    [][(run = "script" /\ step = "loop" /\ csv[cur] # Absent) =>
          LET existing == csv[cur][1]
              entry == country_presence[cur]
              skipped == /\ called' = called
                         /\ csv' = csv
                         /\ bak' = bak
                         /\ current_run_countries'[cur] = Present(existing)
              attempted == <<cur, cur>> \in called'
          IN IF entry # Absent
             THEN /\ skipped <=> entry[1].countries \subseteq existing
                  /\ attempted <=> ~(entry[1].countries \subseteq existing)
             ELSE skipped /\ ~attempted]_vars

\* C9 witness: a run of the script that skipped a tracked, complete month and
\* re-fetched another month whose old dataset (now the backup) lacked a tracked country.
C9_Witness ==
    /\ run = "script"
    /\ step = "merge"
    /\ \E p, q \in Periods :
          /\ country_presence[p] # Absent
          /\ csv[p] # Absent
          /\ country_presence[p][1].countries \subseteq csv[p][1]
          /\ <<p, p>> \notin called
          /\ current_run_countries[p] = csv[p]
          /\ country_presence[q] # Absent
          /\ <<q, q>> \in called
          /\ bak[q] # Absent
          /\ ~(country_presence[q][1].countries \subseteq bak[q][1])
          /\ csv[q] # bak[q]

\* C10: whenever a step of an acquisition run replaces or removes the persisted
\* dataset of a period, the previous content is then in the period's backup.
C10_OverwriteKeepsBackup ==
    [][\A p \in Periods :
          (csv[p] # Absent /\ csv'[p] # csv[p]) => bak'[p] = csv[p]]_vars

\* C7: a report of build_report has overall_status FAIL exactly when the coverage check
\* lists a missing country or the null-currency, duplicates, anomalous-rates (null,
\* <= 0, above the maximum, positive below the minimum), date-stamp or rate-accuracy
\* check counts at least one finding, and PASS otherwise.
C7_FailIffAnyFinding ==
    val_result = "report" =>
        LET checks == report[1].checks
            an == checks.anomalous_rates
            finding == \/ checks.country_coverage.missing_from_csv # {}
                       \/ checks.null_currency_codes.count > 0
                       \/ checks.duplicate_records.count > 0
                       \/ an.null_count > 0
                       \/ an.zero_or_neg_count > 0
                       \/ an.implausibly_large_count > 0
                       \/ an.implausibly_small_count > 0
                       \/ checks.date_coverage.wrong_count > 0
                       \/ checks.rate_accuracy.mismatches_count > 0
        IN /\ report[1].overall_status \in {"PASS", "FAIL"}
           /\ report[1].overall_status = "FAIL" <=> finding

\* C11: in fetch_rates_chunked the chunks are attempted one after the other, each exactly
\* once; a chunk whose fetch_rates_for_range call raises is appended to failed_chunks with
\* its start, end and error; after a chunk, failed or not, the next chunk is attempted, and
\* after the last one the function returns.
C11_FailedChunkRecordedLoopGoesOn ==
    [][(run = "backfill" /\ step \in {"chunk", "save"}) =>
          LET chunk == Chunk(cur, chunk_size)
              ended == step' # "save"
              failed == result' \in {"RuntimeError", "OSError"}
          IN /\ step = "chunk" =>
                   /\ called = {Chunk(k, chunk_size) : k \in 1..(cur - 1)}
                   /\ chunk \notin called
                   /\ called' = called \cup {chunk}
             /\ step = "save" => called' = called
             /\ ended =>
                   /\ IF failed
                      THEN failed_chunks' = Append(failed_chunks,
                               [start |-> chunk[1], end |-> chunk[2], error |-> result'])
                      ELSE result' = "list" /\ failed_chunks' = failed_chunks
                   /\ IF cur < ChunkCount(MaxPeriods, chunk_size)
                      THEN step' = "chunk" /\ cur' = cur + 1
                      ELSE step' = "tracker" /\ cur' = cur
             /\ ~ended => failed_chunks' = failed_chunks /\ cur' = cur]_vars

\* C11 witness: fetch_rates_chunked has returned after a first chunk that failed and a
\* later chunk whose months were saved.
C11_Witness ==
    /\ run = "backfill"
    /\ step = "tracker"
    /\ Len(failed_chunks) = 1
    /\ failed_chunks[1].start = 1
    /\ saved_files # <<>>
    /\ Cardinality(called) = ChunkCount(MaxPeriods, chunk_size)

\* C12: when build_report returns a report with overall_status PASS, total_rows is the
\* number of rows of the dataset and equals its number of distinct (Country, Date) pairs.
C12_PassMeansDistinctPairs ==
    (val_result = "report" /\ report[1].overall_status = "PASS") =>
        LET df == dataset[1].rows
        IN /\ report[1].total_rows = Len(df)
           /\ Cardinality({<<df[k].Country, df[k].Date>> : k \in 1..Len(df)})
                  = report[1].total_rows

\* C12 witness: a PASS report on a dataset of two rows.
C12_Witness ==
    /\ val_result = "report"
    /\ report[1].overall_status = "PASS"
    /\ report[1].total_rows = 2

\* C13: the coverage check of a report gives coverage_pct = |local /\ live| / |live| x 100
\* to two decimals (held in hundredths of a percent): 0 when the live set is empty, 100
\* when the local set equals a non-empty live set; missing_from_csv is live minus local
\* and extra_in_csv_not_in_imf is local minus live.
C13_CoverageFormula ==
    val_result = "report" =>
        LET df == dataset[1].rows
            local == {df[k].Country : k \in 1..Len(df)}
            live == imf_countries
            cov == report[1].checks.country_coverage
            exact == Cardinality(local \cap live) * 10000
        IN /\ live = {} => cov.coverage_pct = 0
           /\ live # {} =>
                 /\ 2 * (cov.coverage_pct * Cardinality(live) - exact) <= Cardinality(live)
                 /\ 2 * (exact - cov.coverage_pct * Cardinality(live)) <= Cardinality(live)
           /\ (live # {} /\ local = live) => cov.coverage_pct = 10000
           /\ cov.missing_from_csv = live \ local
           /\ cov.extra_in_csv_not_in_imf = local \ live

\* C13 witness: a report on a dataset that has one of three live countries and one
\* country the live source does not list.
C13_Witness ==
    /\ val_result = "report"
    /\ Cardinality(imf_countries) = 3
    /\ report[1].checks.country_coverage.coverage_pct = 3333
    /\ Cardinality(report[1].checks.country_coverage.missing_from_csv) = 2

\* C14: in a cross-validation report overall_accuracy_pct is 100 exactly when
\* total_mismatches is 0, and the accuracy_pct of every validated month is 100 exactly
\* when that month's mismatches_count is 0, also when no rate was checked.
C14_FullAccuracyIffNoMismatch ==
    cv_result = "report" =>
        LET r == cv_report[1]
        IN /\ r.summary.overall_accuracy_pct = 1000000 <=> r.summary.total_mismatches = 0
           /\ \A k \in 1..Len(r.monthly_details) :
                 r.monthly_details[k].status = "validated" =>
                     (r.monthly_details[k].accuracy_pct = 10000
                          <=> r.monthly_details[k].mismatches_count = 0)

\* the months of the details with a given status, and the sum of one of their figures
WithStatus(details, status) == {k \in 1..Len(details) : details[k].status = status}
RECURSIVE SumOver(_, _)
SumOver(f, K) ==
    IF K = {} THEN 0 ELSE LET k == CHOOSE x \in K : TRUE IN f[k] + SumOver(f, K \ {k})

\* C15: a cross-validation report is PASS exactly when no validated month has a mismatch
\* and no month's live fetch failed, and REVIEW otherwise; the months whose live fetch
\* failed are the entries of failed_fetches, have status imf_fetch_failed, and the totals
\* checked, matches and mismatches are the sums over the validated months alone.
C15_PassIffNoMismatchNoFailedFetch ==
    cv_result = "report" =>
        LET r == cv_report[1]
            d == r.monthly_details
            validated == WithStatus(d, "validated")
            failed == WithStatus(d, "imf_fetch_failed")
        IN /\ r.overall_status \in {"PASS", "REVIEW"}
           /\ r.overall_status = "PASS" <=>
                  /\ \A k \in validated : d[k].mismatches_count = 0
                  /\ failed = {}
           /\ {r.failed_fetches[j] : j \in 1..Len(r.failed_fetches)} = {d[k].month : k \in failed}
           /\ Len(r.failed_fetches) = Cardinality(failed)
           /\ r.summary.total_rates_checked = SumOver([k \in validated |-> d[k].checked], validated)
           /\ r.summary.total_matches = SumOver([k \in validated |-> d[k].matches], validated)
           /\ r.summary.total_mismatches
                  = SumOver([k \in validated |-> d[k].mismatches_count], validated)

\* C15 witness: a report over two months, one validated without mismatch and one whose
\* live fetch failed, hence REVIEW.
C15_Witness ==
    /\ cv_result = "report"
    /\ Len(cv_report[1].monthly_details) = 2
    /\ Len(cv_report[1].failed_fetches) = 1
    /\ cv_report[1].summary.total_mismatches = 0
    /\ cv_report[1].summary.total_rates_checked > 0
    /\ cv_report[1].overall_status = "REVIEW"

\* C16: a call of resolve_currency_codes gives every override code its override value,
\* whatever the cache holds, and every other cached code its cached value, both without
\* a lookup; the codes in neither are exactly the ones submitted, requests go out only
\* for those, and the values of the others do not change while the lookups run.
C16_OverrideThenCacheThenLookup ==
    [][/\ (res_step \in {"idle", "done"} /\ res_step' # "idle") =>
             \A c \in country_codes' :
                 IF c \in DOMAIN SPECIAL_CURRENCY_OVERRIDES
                 THEN /\ c \notin to_fetch'
                      /\ c \in DOMAIN res_result'
                      /\ res_result'[c] = <<SPECIAL_CURRENCY_OVERRIDES[c]>>
                 ELSE IF c \in DOMAIN currency_cache
                 THEN /\ c \notin to_fetch'
                      /\ c \in DOMAIN res_result'
                      /\ res_result'[c] = currency_cache[c]
                 ELSE c \in to_fetch'
       /\ looked_up' \subseteq to_fetch'
       /\ res_step = "fetch" =>
             /\ \A c \in DOMAIN res_result :
                    c \in DOMAIN res_result' /\ res_result'[c] = res_result[c]
             /\ res_step' = "done" => looked_up' = to_fetch']_vars

\* C16 witness: a returned call for all three codes, with a cache that holds the override
\* code under another value and the country, and a lookup for the third code only.
C16_Witness ==
    /\ res_step = "done"
    /\ country_codes = Codes
    /\ "G163" \in DOMAIN currency_cache
    /\ currency_cache["G163"] = <<"USD">>
    /\ res_result["G163"] = <<"EUR">>
    /\ res_result["USA"] = currency_cache["USA"]
    /\ looked_up = {"ATA"}

C18_ManifestConsumedOnce ==
    \A m \in ManifestIds : invoked[m] <= 1 /\ m \notin again

\* C19: every attempt of process_batch_flow without a manifest path runs
\* run_core_processing on a manifest of the hot folder that no other manifest of the
\* folder is newer than, and raises FileNotFoundError without running it when the
\* hot folder holds no manifest; with an explicit path that does not exist it raises
\* FileNotFoundError without running it either.
C19_LatestManifestOrFileNotFound ==
    [][(fl_pc \in {"process", "process2"} =>
        /\ (manifest_file = NoManifest /\ hot_dir # {}) =>
              \E m \in hot_dir :
                  /\ \A o \in hot_dir : st_mtime[o] <= st_mtime[m]
                  /\ attempt'.chosen = m
                  /\ attempt'.error # "FileNotFoundError"
        /\ (manifest_file = NoManifest /\ hot_dir = {}) =>
              attempt'.error = "FileNotFoundError" /\ invoked' = invoked
                                                   /\ attempt'.chosen = NoManifest
        /\ (manifest_file # NoManifest /\ manifest_file \notin hot_dir) =>
              attempt'.error = "FileNotFoundError" /\ invoked' = invoked
                                                   /\ attempt'.chosen = NoManifest
       )]_vars

\* an automatic selection among manifests of different modification times
C19_Witness ==
    /\ attempt.arg = NoManifest
    /\ attempt.chosen # NoManifest
    /\ attempt.chosen \in hot_dir
    /\ \E o \in hot_dir : st_mtime[o] < st_mtime[attempt.chosen]

\* C20: a first call of run_core_processing that has ended left exactly one of two
\* terminal states: ARCHIVED (the output and a copy of every referenced file in the
\* archive folder, every original removed) or QUARANTINED (a copy of every referenced
\* file in the quarantine folder, every original in place); the files of the batch
\* are not under both the archive and the quarantine folder, and the originals are
\* all removed or all in place.
C20_ExactlyOneTerminalState ==
    (calls = 1 /\ outcome \in {"returned", "raised"} /\ raised # "ManifestNotFound") =>
        LET ARCHIVED == /\ output
                        /\ \A f \in ReferencedAtCall :
                              f \notin disk /\ archive[Basename(f)] # NoFile
            QUARANTINED == \A f \in ReferencedAtCall :
                              f \in disk /\ error_folder[Basename(f)] # NoFile
        IN  /\ ARCHIVED # QUARANTINED
            /\ ~ ((\E n \in AllNames : archive[n] # NoFile)
                   /\ (\E k \in AllNames : error_folder[k] # NoFile))
            /\ \/ \A f \in ReferencedAtCall : f \in disk
               \/ \A f \in ReferencedAtCall : f \notin disk

\* C21: the month-over-month check never changes the outcome: on a dataset file that
\* build_report accepts, the overall_status and the issues list are the same whatever
\* the prior-period file is (absent, or present with any content), and a finding of
\* the check shows in mom_note only.
C21_MomNeverChangesStatus ==
    (val_result # "none" /\ dataset # Absent /\ Required \subseteq dataset[1].columns) =>
        \A prev \in PrevFiles :
            /\ build_result(dataset, prev) = "report"
            /\ val_result = "report"
            /\ LET other == Report(dataset[1].rows, prev, imf_countries, imf_rates,
                                   include_rate_check)
               IN /\ other.overall_status = report[1].overall_status
                  /\ other.issues = report[1].issues

\* C22: build_report raises FileNotFoundError exactly for a missing dataset file and
\* ValueError exactly for a file that lacks one of the required columns, and after
\* either no report was returned, no live rates were fetched and no report was saved.
C22_RaisesBeforeChecksAndFetch ==
    /\ val_result = "FileNotFoundError" <=> (task_try > 0 /\ dataset = Absent)
    /\ val_result = "ValueError" <=>
          (task_try > 0 /\ dataset # Absent /\ ~(Required \subseteq dataset[1].columns))
    /\ val_result \in {"FileNotFoundError", "ValueError"} =>
          report = Absent /\ ~rates_fetched /\ saved = <<>>

\* a file without the Currency column, validated with the rate check asked for
C22_Witness ==
    /\ val_result = "ValueError"
    /\ dataset # Absent
    /\ "Currency" \notin dataset[1].columns
    /\ include_rate_check
    /\ prefect

\* C23: when build_report returned a report, validate_exchange_rate_data returns it
\* for PASS and for FAIL if fail_on_issues is false, raises (ValueError) only for FAIL
\* with fail_on_issues true, and has saved this report before it returns or raises.
C23_ReturnedAsDataAndPersisted ==
    (task_result # "none" /\ val_result = "report") =>
        /\ ~fail_on_issues => task_result = "returned"
        /\ task_result # "returned" =>
              /\ task_result = "ValueError"
              /\ fail_on_issues
              /\ report[1].overall_status = "FAIL"
        /\ saved # <<>>
        /\ saved[Len(saved)] = report[1]

\* C24: in every report anomalous_rates.zero_or_neg_count is the number of rows of the
\* dataset whose Exchange_Rate is a number <= 0, and whenever it is at least 1 the
\* overall_status is FAIL.
C24_ZeroOrNegativeCountedAndFails ==
    val_result = "report" =>
        LET df == dataset[1].rows
            an == report[1].checks.anomalous_rates
            not_positive == {k \in 1..Len(df) :
                               df[k].Exchange_Rate # NaN /\ df[k].Exchange_Rate[1] <= 0}
        IN /\ an.zero_or_neg_count = Cardinality(not_positive)
           /\ an.zero_or_neg_count >= 1 => report[1].overall_status = "FAIL"

\* a single row at rate 0, nothing else to report: the zero rate alone gives FAIL
C24_Witness ==
    /\ val_result = "report"
    /\ Len(dataset[1].rows) = 1
    /\ dataset[1].rows[1].Exchange_Rate = <<0>>
    /\ report[1].checks.anomalous_rates.zero_or_neg_count = 1
    /\ Len(report[1].issues) = 1
    /\ report[1].overall_status = "FAIL"

\* C25: in the rate-accuracy check the rows whose country the live data has are the
\* rows checked; such a row is a match when the live value is zero and the stored value
\* is zero, or the live value is not zero and |stored - live| <= |live| / 1000, and
\* a mismatch otherwise; the entry of a mismatch has the diff_pct "N/A (IMF=0)" exactly
\* when its live value is zero; checked = matches + mismatches_count.
C25_RateAccuracyRowByRow ==
    (val_result = "report" /\ include_rate_check /\ DOMAIN imf_rates # {}) =>
        LET df == dataset[1].rows
            ra == report[1].checks.rate_accuracy
            rows == {k \in 1..Len(df) : df[k].Country \in DOMAIN imf_rates}
            live(k) == imf_rates[df[k].Country]
            stored(k) == df[k].Exchange_Rate
            within(k) == /\ stored(k) # NaN
                         /\ Abs(stored(k)[1] - live(k)) <= Abs(live(k)) \div 1000
            matching == {k \in rows : IF live(k) = 0 THEN stored(k) = <<0>> ELSE within(k)}
        IN /\ ra.checked = Cardinality(rows)
           /\ ra.matches = Cardinality(matching)
           /\ ra.mismatches_count = Cardinality(rows \ matching)
           /\ ra.checked = ra.matches + ra.mismatches_count
           /\ DOMAIN ra.mismatches = rows \ matching
           /\ \A k \in rows \ matching :
                 ra.mismatches[k].diff_pct.kind = "N/A (IMF=0)" <=> live(k) = 0

\* two rows: one a mismatch against a live zero, one at the edge of the tolerance and
\* a match; a country without live value would be a third case, seen in other states
C25_Witness ==
    /\ val_result = "report"
    /\ include_rate_check
    /\ Len(dataset[1].rows) = 2
    /\ report[1].checks.rate_accuracy.checked = 2
    /\ report[1].checks.rate_accuracy.matches = 1
    /\ \E k \in 1..2 :
          /\ imf_rates[dataset[1].rows[k].Country] = 0
          /\ dataset[1].rows[k].Exchange_Rate = <<ThousandRate>>
    /\ \E k \in 1..2 :
          /\ imf_rates[dataset[1].rows[k].Country] = ThousandRate
          /\ dataset[1].rows[k].Exchange_Rate = <<ThousandRate + OneRate>>

\* C26: the chunks of fetch_rates_chunked partition the month list of [start, end]: chunk
\* c holds exactly the months (c-1)*chunk_size+1 .. min(c*chunk_size, number of months),
\* in calendar order, so every month is in exactly one chunk, every chunk but the last
\* has chunk_size months and the last has between 1 and chunk_size; one
\* fetch_rates_for_range call is issued per chunk, in order; and the files saved are one
\* per period of the responses.
C26_ChunksPartitionOneCallEach ==
    ck_step # "idle" =>
        /\ (Len(chunks) - 1) * chunk_size_months < Len(months) \/ months = <<>>
        /\ Len(months) <= Len(chunks) * chunk_size_months
        /\ \A c \in 1..Len(chunks) :
             LET held == build_month_list(chunks[c][1][1], chunks[c][1][2],
                                          chunks[c][2][1], chunks[c][2][2])
                 last == IF c * chunk_size_months < Len(months)
                         THEN c * chunk_size_months ELSE Len(months)
             IN /\ held = SubSeq(months, (c - 1) * chunk_size_months + 1, last)
                /\ c < Len(chunks) => Len(held) = chunk_size_months
                /\ Len(held) \in 1..chunk_size_months
        /\ Len(requests) <= Len(chunks)
        /\ requests = SubSeq(chunks, 1, Len(requests))
        /\ ck_step = "done" => requests = chunks
        /\ Len(responses) + Len(ck_failed) <= Len(requests)
        /\ {all_saved[k] : k \in 1..Len(all_saved)}
             = {months[j] : j \in {p \in 1..Len(months) :
                    \E r \in 1..Len(responses) :
                        months[p][1] * 100 + months[p][2] \in responses[r]}}
        /\ \A k, j \in 1..Len(all_saved) : all_saved[k] = all_saved[j] => k = j

\* November 2023 to March 2024 in chunks of three months: two calls, the second for a
\* chunk of two months, every month saved
C26_Witness ==
    /\ ck_step = "done"
    /\ ck_start = <<2023, 11>> /\ ck_end = <<2024, 3>> /\ chunk_size_months = 3
    /\ chunks = << <<(<<2023, 11>>), (<<2024, 1>>)>>, <<(<<2024, 2>>), (<<2024, 3>>)>> >>
    /\ Len(requests) = 2
    /\ Len(all_saved) = 5

\* C27: during fetch_rates_chunked the external source calls are made one after the
\* other; a delay separates any two consecutive calls (every call but the first is made
\* after a wait since the one before, also after a failed chunk); and the call of a
\* chunk starts only when every earlier chunk has been saved or recorded as failed.
C27_DelayBetweenCallsChunksInOrder ==
    [][(/\ (http_calls' # http_calls) => (http_calls' = http_calls + 1)
        /\ (http_calls' # http_calls /\ http_calls >= 1) => (last_wait > 0)
        /\ (requests' # requests) =>
               (/\ Len(requests') = Len(requests) + 1
                /\ Len(responses) + Len(ck_failed) = Len(requests)
                /\ ck_step = "range")
       )]_vars

\* C28: get_currency_data_from_imf makes at most 3 attempts per call; an attempt that
\* answers HTTP 200 ends the call with its body; after the failed attempt k (k = 0, 1)
\* it waits 2^k seconds before the next attempt, whatever the failure (a timeout
\* included); and the third failure ends the call with None, which the caller turns
\* into a failed chunk, the run going on.
C28_ThreeAttemptsWithBackoff ==
    [][(http_calls' = http_calls + 1 =>
          /\ attempt_no < 3
          /\ xml_data' = "body" => (ck_step' = "parse" /\ attempt_no' = attempt_no)
          /\ (xml_data' # "body" /\ attempt_no < 2) =>
                 /\ attempt_no' = attempt_no + 1
                 /\ last_wait' = (IF attempt_no = 0 THEN 1 ELSE 2)
                 /\ ck_step' = "attempt"
          /\ (xml_data' # "body" /\ attempt_no = 2) =>
                 /\ xml_data' = "None"
                 /\ ck_step' = "between"
                 /\ ck_failed' = Append(ck_failed, chunks[ck_idx])
       )]_vars

C30_BoundedPoolCollectThenReturn ==
    /\ InFlight <= REST_COUNTRIES_MAX_WORKERS
    /\ queued + InFlight + finished + collected = submitted
    /\ attempts_made <= running[1] + 2 * running[2] + 3 * (finished + collected)
    /\ cache_writes = collected
    /\ pool_step = "done" =>
           /\ queued = 0
           /\ InFlight = 0
           /\ finished = 0
           /\ collected = submitted

\* a batch larger than the pool: every worker is busy, one of them on its third
\* attempt, and a lookup waits for a free worker
C30_Witness ==
    /\ pool_step = "fetch"
    /\ submitted > REST_COUNTRIES_MAX_WORKERS
    /\ InFlight = REST_COUNTRIES_MAX_WORKERS
    /\ running[2] >= 1
    /\ queued >= 1

\* C31: whenever create_batch_manifest writes a manifest, the manifest has status
\* READY_FOR_PROCESSING and its files entry names, for partners, units and forex, a
\* preprocessing file of the batch that exists at that moment, the partner or units file
\* being the placeholder when 1_input has no file of that kind; writing the manifest is
\* the last write of the call; and a call that finds no period dataset ends with
\* FileNotFoundError having written no manifest and no preprocessing file.
C31_ManifestCompleteAndWrittenLast ==
    [][(/\ (hot_manifests' # hot_manifests) =>
              LET written == hot_manifests'[mf_batch_id] IN
              /\ mf_pc = "manifest" /\ mf_pc' = "idle" /\ mf_raised' = "none"
              /\ pre_dir' = pre_dir
              /\ \A b \in BatchIds \ {mf_batch_id} : hot_manifests'[b] = hot_manifests[b]
              /\ written.status = "READY_FOR_PROCESSING"
              /\ written.files.partners = <<"Partner_Data", mf_batch_id>>
              /\ written.files.units = <<"Merged_Units", mf_batch_id>>
              /\ written.files.forex = <<"Forex", mf_batch_id>>
              /\ pre_dir[written.files.partners] # 0
              /\ pre_dir[written.files.units] # 0
              /\ pre_dir[written.files.forex] # 0
              /\ ("partner_a.csv" \notin input_csvs) =>
                     pre_dir[written.files.partners] = Placeholder
              /\ ("units.csv" \notin input_csvs) => pre_dir[written.files.units] = Placeholder
        /\ (mf_pc = "create" /\ mf_pc' # "create" /\ \A p \in DataPeriods : data_mtime[p] = 0) =>
              /\ mf_raised' = "FileNotFoundError"
              /\ mf_pc' = "idle"
              /\ pre_dir' = pre_dir
              /\ hot_manifests' = hot_manifests
        /\ (mf_raised' = "FileNotFoundError" /\ mf_raised' # mf_raised) =>
              \A p \in DataPeriods : data_mtime[p] = 0
       )]_vars

\* a manifest has been written for a batch whose partner file is the placeholder and
\* whose units file is merged from 1_input
C31_Witness ==
    \E b \in BatchIds :
        /\ hot_manifests[b].status = "READY_FOR_PROCESSING"
        /\ pre_dir[<<"Partner_Data", b>>] = Placeholder
        /\ pre_dir[<<"Merged_Units", b>>] = Merged
        /\ pre_dir[<<"Forex", b>>] # 0
        /\ mf_pc = "idle"

\* C32: in currency_acquisition_flow a manifest is written only after the fetch and
\* the validation of the chain both succeeded, and the period dataset it packages as its
\* forex file is the dataset that validation passed.
C32_PackagedDatasetWasValidated ==
    [][((hot_manifests' # hot_manifests /\ mf_chain = "currency_acquisition_flow") =>
           /\ fx_path # 0
           /\ fx_validated = fx_path
           /\ source_forex = fx_validated
           /\ hot_manifests'[mf_batch_id].source_forex_file = fx_validated
           /\ pre_dir[<<"Forex", mf_batch_id>>] = fx_validated
       )]_vars

\* C33: any two create_batch_manifest calls have distinct batch ids, and no call writes
\* over the manifest or a preprocessing file of another call.
C33_BatchIdsDistinct ==
    /\ \A j, k \in 1..Len(issued) : issued[j] = issued[k] => j = k
    /\ overwritten = {}

\* C36: every run_core_processing call that has loaded its manifest and has ended left a
\* log written by that call: the success log, and no error log, exactly when it
\* returned normally; the error log with the caught error, and no success log, exactly
\* when it raised.
C36_LogArtifactOfEveryRun ==
    /\ outcome = "returned" =>
           /\ success_log = calls
           /\ error_log.call # calls
    /\ (outcome = "raised" /\ raised # "ManifestNotFound") =>
           /\ error_log.call = calls
           /\ error_log.error = exc
           /\ success_log # calls

\* C35: the watcher never emits more than one local.manifest.created event for a
\* manifest file name, and every *_MANIFEST.json file that was in the hot folder at a poll
\* eventually has its event emitted.
C35_OneEventPerManifestEventually ==
    /\ [](\A f \in WatchedNames :
            /\ emitted[f] <= 1
            /\ emitted[f] > 0 => IsManifestName(f))
    /\ \A f \in WatchedNames : (f \in polled) ~> (emitted[f] = 1)

\* C34: when a run of the completeness-aware script has completed, the tracker file
\* has, for every period the run skipped or fetched and saved, an entry whose country
\* set contains every country of the period's dataset on disk and whose count is the
\* size of its country list.
C34_LedgerCoversDatasetsOfRun ==
    (run = "script" /\ step = "done") =>
        \A p \in Periods :
            current_run_countries[p] # Absent =>
                /\ csv[p] # Absent
                /\ tracker_file[p] # Absent
                /\ csv[p][1] \subseteq tracker_file[p][1].countries
                /\ tracker_file[p][1].count = Cardinality(tracker_file[p][1].countries)

\* a completed run that skipped one period and fetched and saved another, the entry of
\* the fetched period holding more countries than its dataset
C34_Witness ==
    /\ run = "script"
    /\ step = "done"
    /\ \E p, q \in Periods :
          /\ <<p, p>> \in called
          /\ current_run_countries[p] # Absent
          /\ tracker_file[p] # Absent
          /\ tracker_file[p][1].countries # csv[p][1]
          /\ <<q, q>> \notin called
          /\ current_run_countries[q] # Absent

\* C39: against a source that answers every request, always with the same country set
\* for a period, the runs of the completeness-aware script reach a fixpoint: from some
\* run on every period is skipped, no request is sent to the source and no dataset is
\* backed up or overwritten.
C39_RunsReachFixpoint ==
    /\ <>[](called = {})
    /\ <>[][csv' = csv /\ bak' = bak]_vars

\* C37: when fetch_rates_chunked has returned, every month of the range is in saved_files
\* or inside a chunk of failed_chunks, total_months is the number of months of the range,
\* and skipped is the number of months whose existing dataset was kept
C37_ResultAccountsForEveryMonth ==
    (run = "backfill" /\ step \in {"tracker", "done"}) =>
        LET r == ChunkedResult IN
          /\ \A p \in Periods :
                \/ \E k \in 1..Len(r.saved_files) : r.saved_files[k] = p
                \/ \E k \in 1..Len(r.failed_chunks) :
                      r.failed_chunks[k].start <= p /\ p <= r.failed_chunks[k].end
          /\ r.total_months = MaxPeriods
          /\ r.skipped = Cardinality(kept)

\* C38: a fetch_rates_for_month call or a fetch_rates_for_range call that ends with
\* RuntimeError (no data, empty parse) leaves every dataset, backup and the tracker as
\* they were, with force as well
C38_FailedFetchLeavesDatasets ==
    [][(
        (\/ run' = "month" /\ result' = "RuntimeError"
         \/ /\ Len(failed_chunks') = Len(failed_chunks) + 1
            /\ failed_chunks'[Len(failed_chunks')].error = "RuntimeError")
        => (csv' = csv /\ bak' = bak /\ tracker_file' = tracker_file)
    )]_vars

\* a forced fetch_rates_for_month call on a month that has a dataset ended with
\* RuntimeError
C38_Witness ==
    /\ run = "month"
    /\ force
    /\ result = "RuntimeError"
    /\ \E p \in Periods : called = {<<p, p>>} /\ csv[p] # Absent

====
